---- MODULE Spec2Model ----
(***************************************************************************)
(* Node liveness (pkg/storage/node_liveness.go).                           *)
(*                                                                         *)
(* Every node owns one liveness record in the replicated KV store and      *)
(* keeps an in-memory cache of the records of all nodes, fed by gossip and *)
(* by the results of its own mutations.  The mutations (heartbeatInternal, *)
(* IncrementEpoch, setDrainingInternal, SetDecommissioning) all go through *)
(* updateLiveness / updateLivenessAttempt, a conditional put guarded by a  *)
(* per-target single-slot gate.                                            *)
(*                                                                         *)
(* A thread is one goroutine running one call at a time on its home node.  *)
(* Its position (pc) walks through the suspension points of the call:      *)
(*   idle -> gate -> [read ->] sync -> cput -> resp -> idle                *)
(* and, for the heartbeat loop, token -> call -> gate ... -> putToken.     *)
(* Timestamps are integers; a nil *Liveness and the zero Liveness{} are    *)
(* both the record Empty (the code itself tests `== Liveness{}`).          *)
(***************************************************************************)
EXTENDS Integers, FiniteSets, Sequences, TLC

\* ------------------------------------------------------------------------
\* Bounds and configuration
\* ------------------------------------------------------------------------
Nodes == {1, 2}
NodeIDs == Nodes \cup {0}

\* nl.livenessThreshold and nl.clock.MaxOffset(), in clock units
LivenessThreshold == 2
MaxOffset == 1

\* clocks run from 0 to MaxTime
MaxTime == 2
\* a node issues at most MaxHeartbeats heartbeat calls (successes + failures)
MaxHeartbeats == 2
\* a thread other than the heartbeat loop issues at most MaxCalls calls
MaxCalls == 1
\* the environment injects at most MaxFaults failures (disk, KV, ambiguous result)
MaxFaults == 1
\* where a disk stalls the clocks run from 0 to MaxStallTime
MaxStallTime == 4

\* the engines of a node commit
NoStall == -1

\* TimeUntilStoreDead, in clock units: a record is dead once it has been
\* expired for that long
TimeUntilStoreDead == 1

\* the functions that may be registered as IsLiveCallback
Callbacks == {"cb1", "cb2"}

\* ------------------------------------------------------------------------
\* Threads: the goroutines of the two nodes
\* ------------------------------------------------------------------------
LoopThreads  == {"loop1", "loop2"}
HbThreads    == {"hb1"}
DrainThreads == {"drain1"}
IncThreads   == {"inc1", "inc2"}
DecThreads   == {"dec1", "dec2", "dec2b"}
PauseThreads == {"pause1", "pause1b"}
QueryThreads == {"query2"}
Threads == LoopThreads \cup HbThreads \cup DrainThreads \cup IncThreads
             \cup DecThreads \cup PauseThreads \cup QueryThreads

Home(t) == IF t \in {"loop2", "inc2", "dec2", "dec2b", "query2"} THEN 2 ELSE 1
LoopOf(n) == IF n = 1 THEN "loop1" ELSE "loop2"

\* ------------------------------------------------------------------------
\* Liveness records
\* ------------------------------------------------------------------------
Empty == [node_id |-> 0, epoch |-> 0, expiration |-> 0,
          draining |-> FALSE, decommissioning |-> FALSE]

NewLivenessNoEpoch(n) == [node_id |-> n, epoch |-> 0, expiration |-> 0,
                          draining |-> FALSE, decommissioning |-> FALSE]
NewLiveness(n) == [node_id |-> n, epoch |-> 1, expiration |-> 0,
                   draining |-> FALSE, decommissioning |-> FALSE]

\* storagepb.Liveness.IsLive(now, maxOffset): now < expiration - maxOffset
IsLive(l, now) == now + MaxOffset < l.expiration

shouldReplaceIgnoresFlags(old, new) ==
    IF old = Empty THEN TRUE
    ELSE IF old.epoch # new.epoch THEN old.epoch < new.epoch
    ELSE old.expiration < new.expiration
shouldReplaceAlways(old, new) == TRUE
shouldReplaceLiveness(old, new) ==
    IF old = Empty THEN TRUE
    ELSE IF old.epoch # new.epoch THEN old.epoch < new.epoch
    ELSE IF old.expiration # new.expiration THEN old.expiration < new.expiration
    ELSE old.draining # new.draining \/ old.decommissioning # new.decommissioning

\* the nodes map after maybeUpdate(new) on a cache c
maybeUpdate(c, new) ==
    IF shouldReplaceLiveness(c[new.node_id], new)
    THEN [c EXCEPT ![new.node_id] = new]
    ELSE c

\* maybeUpdate: `!old.IsLive(now, offset) && new.IsLive(now, offset)`
becameLiveIgnoresOld(old, new, now) == IsLive(new, now)
becameLive(old, new, now) == ~IsLive(old, now) /\ IsLive(new, now)

VARIABLES
    store,            \* store[n]: the record under keys.NodeLivenessKey(n), Empty if none
    gossiped,         \* gossiped[n]: the records of n the liveness range has gossiped
    cache,            \* cache[m]: nl.mu.nodes of node m
    clock,            \* clock[m]: nl.clock.Now() of node m
    selfSem,          \* selfSem[m]: TRUE while the slot of nl.selfSem is taken
    otherSem,         \* otherSem[m]: TRUE while the slot of nl.otherSem is taken
    heartbeatToken,   \* heartbeatToken[m]: tokens in the nl.heartbeatToken channel
    heartbeatPaused,  \* heartbeatPaused[m]: nl.heartbeatPaused
    incrementEpoch,   \* incrementEpoch[m]: the heartbeat loop's local incrementEpoch
    metrics,          \* metrics[m]: HeartbeatSuccesses, HeartbeatFailures, EpochIncrements
    callbacks,        \* callbacks[m]: nl.mu.callbacks, the registered IsLiveCallbacks
    invoked,          \* invoked[m][cb][n]: how often callback cb was invoked with node n
    heartbeatCallback,\* heartbeatCallback[m]: nl.mu.heartbeatCallback is not nil
    alive,            \* alive[m]: how often the heartbeat callback was invoked
    stalledSince,     \* stalledSince[m]: the clock reading of m from which on the
                      \* commits of its engines block, NoStall while they complete
    startEpoch,       \* startEpoch[n]: the epoch of the record of n the processes
                      \* found in the store when they started, 0 if none (history)
    faultsLeft,       \* the failures the environment may still inject
    active,           \* the threads that run in this behaviour
    th                \* th[t]: the call thread t is executing and its locals

vars == <<store, gossiped, cache, clock, selfSem, otherSem, heartbeatToken,
          heartbeatPaused, incrementEpoch, metrics, callbacks, invoked,
          heartbeatCallback, alive, stalledSince, startEpoch, faultsLeft,
          active, th>>

\* the locals of a call; wrote records that a conditional put of the call has
\* committed, whatever answer the call received for it; answer is the map a
\* query returned
IdleThread == [pc |-> "idle", op |-> "none", target |-> 0, liveness |-> Empty,
               update |-> Empty, arg |-> FALSE, incr |-> FALSE,
               outcome |-> "none", actual |-> Empty,
               result |-> "none", changed |-> FALSE, calls |-> 0,
               wrote |-> FALSE, answer |-> <<>>]

\* a record a previous incarnation of node n left behind: one heartbeat at time 0
OldRecord(n) == [NewLiveness(n) EXCEPT !.expiration = LivenessThreshold + MaxOffset]

\* no callback has been invoked
NoneInvoked == [m \in Nodes |-> [cb \in Callbacks |-> [n \in NodeIDs |-> 0]]]

\* the state after NewNodeLiveness on every node, for one choice of the threads
\* that run, of the failures to inject, of the records found in the store and
\* of the heartbeat callback handed to StartHeartbeat
InitState(threads, nfaults, stored, hbcb) ==
    /\ active = threads
    /\ faultsLeft = nfaults
    /\ store = stored
    /\ gossiped = [n \in Nodes |-> IF store[n] = Empty THEN {} ELSE {store[n]}]
    /\ cache = [m \in Nodes |-> [n \in NodeIDs |-> Empty]]
    /\ clock = [m \in Nodes |-> 0]
    /\ selfSem = [m \in Nodes |-> FALSE]
    /\ otherSem = [m \in Nodes |-> FALSE]
    /\ heartbeatToken = [m \in Nodes |-> 1]
    /\ heartbeatPaused = [m \in Nodes |-> 0]
    /\ incrementEpoch = [m \in Nodes |-> TRUE]
    /\ metrics = [m \in Nodes |-> [succ |-> 0, fail |-> 0, epochinc |-> 0]]
    /\ callbacks = [m \in Nodes |-> <<>>]
    /\ invoked = NoneInvoked
    /\ heartbeatCallback = [m \in Nodes |-> hbcb]
    /\ alive = [m \in Nodes |-> 0]
    /\ stalledSince = [m \in Nodes |-> NoStall]
    /\ startEpoch = [n \in Nodes |-> stored[n].epoch]
    /\ th = [t \in Threads |->
               IF t \in LoopThreads THEN [IdleThread EXCEPT !.pc = "token"]
               ELSE IdleThread]

\* StartHeartbeat was called with a nil HeartbeatCallback
InitWith(threads, nfaults, stored) == InitState(threads, nfaults, stored, FALSE)

NoRecords == [n \in Nodes |-> Empty]
OldRecords == [n \in Nodes |-> OldRecord(n)]

\* a record of an earlier incarnation whose clock was ahead of the clock the
\* process restarts with: the clock checks do not hold across restarts
AheadRecord(n) == [OldRecord(n) EXCEPT !.expiration = @ + 1]
AheadRecords == [n \in Nodes |-> AheadRecord(n)]

\* ------------------------------------------------------------------------
\* Gates: nl.selfSem and nl.otherSem, channels of capacity one
\* ------------------------------------------------------------------------
sem(m, nodeID) == IF nodeID = m THEN "selfSem" ELSE "otherSem"

SemTaken(m, nodeID) ==
    IF sem(m, nodeID) = "selfSem" THEN selfSem[m] ELSE otherSem[m]

\* `case sem <- struct{}{}` can proceed
SemFreeUnbuffered(m, nodeID) == TRUE
SemFree(m, nodeID) == ~SemTaken(m, nodeID)

SemSet(m, nodeID, v) ==
    /\ selfSem' = IF sem(m, nodeID) = "selfSem"
                  THEN [selfSem EXCEPT ![m] = v] ELSE selfSem
    /\ otherSem' = IF sem(m, nodeID) = "selfSem"
                   THEN otherSem ELSE [otherSem EXCEPT ![m] = v]

\* the thread after its call has returned result r
ReturnedToCaller(t, r, chg) ==
    [IdleThread EXCEPT
        !.pc = IF t \in LoopThreads
               THEN (IF r = "epoch_incremented" THEN "call" ELSE "putToken")
               ELSE IF t \in DrainThreads /\ r # "ok" THEN "retry"
               ELSE "idle",
        !.op = th[t].op,
        !.target = IF t \in DecThreads \cup DrainThreads THEN th[t].target ELSE 0,
        !.arg = IF t \in DecThreads \cup DrainThreads THEN th[t].arg ELSE FALSE,
        !.result = r,
        !.changed = chg,
        !.calls = th[t].calls]
Returned(t, r, chg) ==
    [IdleThread EXCEPT
        !.pc = IF t \in LoopThreads
               THEN (IF r = "epoch_incremented" THEN "call" ELSE "putToken")
               ELSE IF t \in DrainThreads /\ r # "ok" THEN "retry"
               ELSE IF t \in DecThreads /\ r = "change_decommissioning_failed"
                    THEN "gate"
               ELSE "idle",
        !.op = th[t].op,
        !.target = IF t \in DecThreads \cup DrainThreads THEN th[t].target ELSE 0,
        !.arg = IF t \in DecThreads \cup DrainThreads THEN th[t].arg ELSE FALSE,
        !.result = r,
        !.changed = chg,
        !.calls = th[t].calls]

\* the loop's `incrementEpoch = false` after a heartbeat that returned nil
LoopAfterAnyResult(t, r) ==
    incrementEpoch' = IF t \in LoopThreads
                      THEN [incrementEpoch EXCEPT ![Home(t)] = FALSE]
                      ELSE incrementEpoch
LoopAfter(t, r) ==
    incrementEpoch' = IF t \in LoopThreads /\ r = "ok"
                      THEN [incrementEpoch EXCEPT ![Home(t)] = FALSE]
                      ELSE incrementEpoch

HeartbeatsLeft(m) == metrics[m].succ + metrics[m].fail < MaxHeartbeats

\* `case <-ctx.Done(): return ctx.Err()` of the select on the gate: the
\* context of the call is done and the call returns its error
GateContextDoneTakesGate(t) ==
    /\ th[t].pc = "gate"
    /\ th[t].op \in {"Heartbeat", "IncrementEpoch", "SetDraining", "SetDecommissioning"}
    /\ th' = [th EXCEPT ![t] = Returned(t, "error", FALSE)]
    /\ selfSem' = IF th[t].target = Home(t)
                  THEN [selfSem EXCEPT ![Home(t)] = TRUE] ELSE selfSem
    /\ otherSem' = IF th[t].target = Home(t)
                   THEN otherSem ELSE [otherSem EXCEPT ![Home(t)] = TRUE]
    /\ UNCHANGED <<store, gossiped, cache, clock, heartbeatToken,
                   heartbeatPaused, incrementEpoch, metrics>>
    /\ faultsLeft > 0
    /\ faultsLeft' = faultsLeft - 1
    /\ UNCHANGED active
    /\ UNCHANGED <<callbacks, invoked, heartbeatCallback, alive, stalledSince, startEpoch>>
GateContextDone(t) ==
    /\ th[t].pc = "gate"
    /\ th[t].op \in {"Heartbeat", "IncrementEpoch", "SetDraining", "SetDecommissioning"}
    /\ th' = [th EXCEPT ![t] = Returned(t, "error", FALSE)]
    /\ UNCHANGED <<store, gossiped, cache, clock, selfSem, otherSem,
                   heartbeatToken, heartbeatPaused, incrementEpoch, metrics>>
    /\ faultsLeft > 0
    /\ faultsLeft' = faultsLeft - 1
    /\ UNCHANGED active
    /\ UNCHANGED <<callbacks, invoked, heartbeatCallback, alive, stalledSince, startEpoch>>

\* ------------------------------------------------------------------------
\* IsLiveCallbacks
\* ------------------------------------------------------------------------
\* RegisterCallback(cb) on node m
RegisterCallback(m, cb) ==
    /\ \A i \in 1..Len(callbacks[m]) : callbacks[m][i] # cb
    /\ callbacks' = [callbacks EXCEPT ![m] = Append(@, cb)]
    /\ UNCHANGED <<store, gossiped, cache, clock, selfSem, otherSem, heartbeatToken,
                   heartbeatPaused, incrementEpoch, metrics, faultsLeft, active, th>>
    /\ UNCHANGED <<invoked, heartbeatCallback, alive, stalledSince, startEpoch>>

\* the invocations after maybeUpdate(new) on node m: when the record was
\* replaced and the node became live, every callback copied from
\* nl.mu.callbacks is called with new.NodeID
maybeUpdateCallbacks(m, new) ==
    LET old == cache[m][new.node_id] IN
        IF /\ shouldReplaceLiveness(old, new)
           /\ becameLive(old, new, clock[m])
        THEN [invoked EXCEPT ![m] =
                 [cb \in Callbacks |-> [n \in NodeIDs |->
                     IF n = new.node_id
                     THEN @[cb][n] + Cardinality({i \in 1..Len(callbacks[m]) :
                                                     callbacks[m][i] = cb})
                     ELSE @[cb][n]]]]
        ELSE invoked

\* ------------------------------------------------------------------------
\* Clock and gossip
\* ------------------------------------------------------------------------
\* a clock advances, up to max; the clocks of two nodes stay within MaxOffset
\* of each other
TickUpTo(m, max) ==
    /\ clock[m] < max
    /\ \A o \in Nodes : clock[m] + 1 - clock[o] <= MaxOffset
    /\ clock' = [clock EXCEPT ![m] = @ + 1]
    /\ UNCHANGED <<store, gossiped, cache, selfSem, otherSem, heartbeatToken,
                   heartbeatPaused, incrementEpoch, metrics, faultsLeft, active, th>>
    /\ UNCHANGED <<callbacks, invoked, heartbeatCallback, alive, stalledSince, startEpoch>>

Tick(m) == TickUpTo(m, MaxTime)

\* livenessGossipUpdate: node m receives a gossiped record of node n
livenessGossipUpdate(m, n) ==
    \E l \in gossiped[n] :
        /\ cache' = [cache EXCEPT ![m] = maybeUpdate(cache[m], l)]
        /\ cache' # cache
        /\ invoked' = maybeUpdateCallbacks(m, l)
        /\ UNCHANGED <<store, gossiped, clock, selfSem, otherSem, heartbeatToken,
                       heartbeatPaused, incrementEpoch, metrics, faultsLeft, active, th>>
        /\ UNCHANGED <<callbacks, heartbeatCallback, alive, stalledSince, startEpoch>>

\* ------------------------------------------------------------------------
\* updateLiveness and updateLivenessAttempt, shared by all mutations
\* ------------------------------------------------------------------------
ignoreCache(t) == th[t].op \in {"SetDraining", "SetDecommissioning"}

\* updateLiveness: `ctx.Err()` before an attempt; the context has expired
ContextDone(t) ==
    /\ th[t].pc = "sync"
    /\ th' = [th EXCEPT ![t].pc = "resp", ![t].outcome = "error"]
    /\ UNCHANGED <<store, gossiped, cache, clock, selfSem, otherSem,
                   heartbeatToken, heartbeatPaused, incrementEpoch, metrics>>
    /\ faultsLeft > 0
    /\ faultsLeft' = faultsLeft - 1
    /\ UNCHANGED active
    /\ UNCHANGED <<callbacks, invoked, heartbeatCallback, alive, stalledSince, startEpoch>>

\* a disk of node m stalls: from now on batch.Commit(true) blocks
EngineStalls(m) ==
    /\ stalledSince[m] = NoStall
    /\ stalledSince' = [stalledSince EXCEPT ![m] = clock[m]]
    /\ UNCHANGED <<store, gossiped, cache, clock, selfSem, otherSem, heartbeatToken,
                   heartbeatPaused, incrementEpoch, metrics, faultsLeft, active, th>>
    /\ UNCHANGED <<callbacks, invoked, heartbeatCallback, alive, startEpoch>>

\* updateLiveness: the no-op write to every engine is synced before the attempt
EngineSyncWhileStalled(t) ==
    /\ th[t].pc = "sync"
    /\ th' = [th EXCEPT ![t].pc = "cput"]
    /\ UNCHANGED <<store, gossiped, cache, clock, selfSem, otherSem,
                   heartbeatToken, heartbeatPaused, incrementEpoch, metrics>>
    /\ UNCHANGED <<faultsLeft, active>>
    /\ UNCHANGED <<callbacks, invoked, heartbeatCallback, alive, stalledSince, startEpoch>>
EngineSync(t) ==
    /\ th[t].pc = "sync"
    /\ stalledSince[Home(t)] = NoStall
    /\ th' = [th EXCEPT ![t].pc = "cput"]
    /\ UNCHANGED <<store, gossiped, cache, clock, selfSem, otherSem,
                   heartbeatToken, heartbeatPaused, incrementEpoch, metrics>>
    /\ UNCHANGED <<faultsLeft, active>>
    /\ UNCHANGED <<callbacks, invoked, heartbeatCallback, alive, stalledSince, startEpoch>>

\* updateLiveness: LogData or Commit fails; the error is returned to the operation
EngineSyncFailureIgnored(t) ==
    /\ th[t].pc = "sync"
    /\ th' = [th EXCEPT ![t].pc = "cput"]
    /\ UNCHANGED <<store, gossiped, cache, clock, selfSem, otherSem,
                   heartbeatToken, heartbeatPaused, incrementEpoch, metrics>>
    /\ faultsLeft > 0
    /\ faultsLeft' = faultsLeft - 1
    /\ UNCHANGED active
    /\ UNCHANGED <<callbacks, invoked, heartbeatCallback, alive, stalledSince, startEpoch>>
EngineSyncFails(t) ==
    /\ th[t].pc = "sync"
    /\ stalledSince[Home(t)] = NoStall
    /\ th' = [th EXCEPT ![t].pc = "resp", ![t].outcome = "error"]
    /\ UNCHANGED <<store, gossiped, cache, clock, selfSem, otherSem,
                   heartbeatToken, heartbeatPaused, incrementEpoch, metrics>>
    /\ faultsLeft > 0
    /\ faultsLeft' = faultsLeft - 1
    /\ UNCHANGED active
    /\ UNCHANGED <<callbacks, invoked, heartbeatCallback, alive, stalledSince, startEpoch>>

\* updateLivenessAttempt: the cached record shows that the put would fail
CacheCheckSkipped(t) == FALSE
CacheCheckFails(t) ==
    /\ ~ignoreCache(t)
    /\ cache[Home(t)][th[t].target] # Empty
    /\ (th[t].liveness = Empty \/ cache[Home(t)][th[t].target] # th[t].liveness)

\* the expected value handed to CPut: nil (no record) or oldLiveness
CPutUnconditional(t) == store[th[t].target]
CPutExpected(t) == th[t].liveness

\* the KV layer's conditional put: the stored value equals the expected one
ConditionHolds(t) == store[th[t].target] = CPutExpected(t)

Commit(t) ==
    /\ store' = [store EXCEPT ![th[t].target] = th[t].update]
    /\ gossiped' = [gossiped EXCEPT ![th[t].target] = @ \cup {th[t].update}]

\* updateLivenessAttempt answered from the cache: handleCondFailed(*l)
CachedConditionFailed(t) ==
    /\ th[t].pc = "cput"
    /\ CacheCheckFails(t)
    /\ th' = [th EXCEPT ![t].pc = "resp", ![t].outcome = "condfailed",
                        ![t].actual = cache[Home(t)][th[t].target]]
    /\ UNCHANGED <<store, gossiped, cache, clock, selfSem, otherSem,
                   heartbeatToken, heartbeatPaused, incrementEpoch, metrics>>
    /\ UNCHANGED <<faultsLeft, active>>
    /\ UNCHANGED <<callbacks, invoked, heartbeatCallback, alive, stalledSince, startEpoch>>

\* updateLivenessAttempt: the one-phase-commit transaction commits, and the
\* heartbeat callback, if one is set, is called
CPutCommits(t) ==
    /\ th[t].pc = "cput"
    /\ ~CacheCheckFails(t)
    /\ ConditionHolds(t)
    /\ Commit(t)
    /\ th' = [th EXCEPT ![t].pc = "resp", ![t].outcome = "ok", ![t].wrote = TRUE]
    /\ UNCHANGED <<cache, clock, selfSem, otherSem, heartbeatToken,
                   heartbeatPaused, incrementEpoch, metrics>>
    /\ UNCHANGED <<faultsLeft, active>>
    /\ alive' = IF heartbeatCallback[Home(t)]
                THEN [alive EXCEPT ![Home(t)] = @ + 1] ELSE alive
    /\ UNCHANGED <<callbacks, invoked, heartbeatCallback, stalledSince, startEpoch>>

\* updateLivenessAttempt: ConditionFailedError with the actual stored value
CPutConditionFailedCallsBack(t) ==
    /\ th[t].pc = "cput"
    /\ ~CacheCheckFails(t)
    /\ ~ConditionHolds(t)
    /\ th' = [th EXCEPT ![t].pc = "resp", ![t].outcome = "condfailed",
                        ![t].actual = store[th[t].target]]
    /\ UNCHANGED <<store, gossiped, cache, clock, selfSem, otherSem,
                   heartbeatToken, heartbeatPaused, incrementEpoch, metrics>>
    /\ UNCHANGED <<faultsLeft, active>>
    /\ alive' = [alive EXCEPT ![Home(t)] = @ + 1]
    /\ UNCHANGED <<callbacks, invoked, heartbeatCallback, stalledSince, startEpoch>>
CPutConditionFailedRetried(t) ==
    /\ th[t].pc = "cput"
    /\ ~CacheCheckFails(t)
    /\ ~ConditionHolds(t)
    /\ th' = [th EXCEPT ![t].pc = "sync"]
    /\ UNCHANGED <<store, gossiped, cache, clock, selfSem, otherSem,
                   heartbeatToken, heartbeatPaused, incrementEpoch, metrics>>
    /\ UNCHANGED <<faultsLeft, active>>
    /\ UNCHANGED <<callbacks, invoked, heartbeatCallback, alive, stalledSince, startEpoch>>
CPutConditionFailed(t) ==
    /\ th[t].pc = "cput"
    /\ ~CacheCheckFails(t)
    /\ ~ConditionHolds(t)
    /\ th' = [th EXCEPT ![t].pc = "resp", ![t].outcome = "condfailed",
                        ![t].actual = store[th[t].target]]
    /\ UNCHANGED <<store, gossiped, cache, clock, selfSem, otherSem,
                   heartbeatToken, heartbeatPaused, incrementEpoch, metrics>>
    /\ UNCHANGED <<faultsLeft, active>>
    /\ UNCHANGED <<callbacks, invoked, heartbeatCallback, alive, stalledSince, startEpoch>>

\* updateLivenessAttempt: AmbiguousResultError; the put may or may not have
\* committed; errRetryLiveness makes updateLiveness start over
CPutAmbiguous(t) ==
    /\ th[t].pc = "cput"
    /\ ~CacheCheckFails(t)
    /\ \E applied \in {FALSE, ConditionHolds(t)} :
          /\ IF applied THEN Commit(t) ELSE UNCHANGED <<store, gossiped>>
          /\ th' = [th EXCEPT ![t].pc = "sync", ![t].wrote = @ \/ applied]
    /\ UNCHANGED <<cache, clock, selfSem, otherSem, heartbeatToken,
                   heartbeatPaused, incrementEpoch, metrics>>
    /\ faultsLeft > 0
    /\ faultsLeft' = faultsLeft - 1
    /\ UNCHANGED active
    /\ UNCHANGED <<callbacks, invoked, heartbeatCallback, alive, stalledSince, startEpoch>>

\* updateLivenessAttempt: any other error of the transaction, returned as it is
CPutError(t) ==
    /\ th[t].pc = "cput"
    /\ ~CacheCheckFails(t)
    /\ th' = [th EXCEPT ![t].pc = "resp", ![t].outcome = "error"]
    /\ UNCHANGED <<store, gossiped, cache, clock, selfSem, otherSem,
                   heartbeatToken, heartbeatPaused, incrementEpoch, metrics>>
    /\ faultsLeft > 0
    /\ faultsLeft' = faultsLeft - 1
    /\ UNCHANGED active
    /\ UNCHANGED <<callbacks, invoked, heartbeatCallback, alive, stalledSince, startEpoch>>

\* ------------------------------------------------------------------------
\* Heartbeat
\* ------------------------------------------------------------------------
\* the record heartbeatInternal proposes at clock reading now
HeartbeatUpdateKeepsExpiration(n, liveness, incr, now) ==
    IF liveness = Empty
    THEN [NewLiveness(n) EXCEPT !.expiration = now + LivenessThreshold + MaxOffset]
    ELSE IF incr THEN [liveness EXCEPT !.epoch = @ + 1, !.draining = FALSE]
    ELSE liveness
HeartbeatUpdateClearsDraining(n, liveness, incr, now) ==
    [(IF liveness = Empty THEN NewLiveness(n)
      ELSE IF incr THEN [liveness EXCEPT !.epoch = @ + 1]
      ELSE liveness)
     EXCEPT !.expiration = now + LivenessThreshold + MaxOffset,
            !.draining = FALSE]
HeartbeatUpdateKeepsDraining(n, liveness, incr, now) ==
    [(IF liveness = Empty THEN NewLiveness(n)
      ELSE IF incr THEN [liveness EXCEPT !.epoch = @ + 1]
      ELSE liveness)
     EXCEPT !.expiration = now + LivenessThreshold + MaxOffset]
HeartbeatUpdate(n, liveness, incr, now) ==
    [(IF liveness = Empty THEN NewLiveness(n)
      ELSE IF incr THEN [liveness EXCEPT !.epoch = @ + 1, !.draining = FALSE]
      ELSE liveness)
     EXCEPT !.expiration = now + LivenessThreshold + MaxOffset]

\* Heartbeat(ctx, liveness) called with the caller's cached record of itself
Heartbeat(t) ==
    /\ th[t].pc = "idle"
    /\ th[t].calls < MaxCalls
    /\ HeartbeatsLeft(Home(t))
    /\ th' = [th EXCEPT ![t] = [IdleThread EXCEPT
                 !.pc = "gate", !.op = "Heartbeat", !.target = Home(t),
                 !.liveness = cache[Home(t)][Home(t)], !.incr = FALSE,
                 !.calls = th[t].calls + 1]]
    /\ UNCHANGED <<store, gossiped, cache, clock, selfSem, otherSem,
                   heartbeatToken, heartbeatPaused, incrementEpoch, metrics>>
    /\ UNCHANGED <<faultsLeft, active>>
    /\ UNCHANGED <<callbacks, invoked, heartbeatCallback, alive, stalledSince, startEpoch>>

\* `liveness != nil && update.Expiration.Less(liveness.Expiration)`
ExpirationRegressIgnored(liveness, update) == FALSE
ExpirationRegress(liveness, update) ==
    liveness # Empty /\ update.expiration < liveness.expiration

\* heartbeatInternal up to updateLiveness: the gate, the update, the regress check
heartbeatInternal(t) ==
    LET m == Home(t)
        update == HeartbeatUpdate(m, th[t].liveness, th[t].incr, clock[m])
        regress == ExpirationRegress(th[t].liveness, update)
    IN  /\ th[t].pc = "gate"
        /\ th[t].op = "Heartbeat"
        /\ SemFree(m, m)
        /\ IF regress
           THEN /\ th' = [th EXCEPT ![t] = Returned(t, "expiration_regress", FALSE)]
                /\ UNCHANGED <<selfSem, otherSem>>
           ELSE /\ th' = [th EXCEPT ![t].pc = "sync", ![t].update = update]
                /\ SemSet(m, m, TRUE)
        /\ UNCHANGED <<store, gossiped, cache, clock, heartbeatToken,
                       heartbeatPaused, incrementEpoch, metrics>>
        /\ UNCHANGED <<faultsLeft, active>>
        /\ UNCHANGED <<callbacks, invoked, heartbeatCallback, alive, stalledSince, startEpoch>>

\* the error handleCondFailed of heartbeatInternal returns for the actual record
HeartbeatCondFailedAnyLive(actual, incr, now) ==
    IF IsLive(actual, now) THEN "ok" ELSE "epoch_incremented"
HeartbeatCondFailed(actual, incr, now) ==
    IF IsLive(actual, now) /\ ~incr THEN "ok" ELSE "epoch_incremented"

\* heartbeatInternal after updateLiveness: cache, counters, gate, result
heartbeatInternalReturn(t) ==
    LET m == Home(t)
        r == CASE th[t].outcome = "ok" -> "ok"
               [] th[t].outcome = "condfailed" ->
                      HeartbeatCondFailed(th[t].actual, th[t].incr, clock[m])
               [] OTHER -> "error"
    IN  /\ th[t].pc = "resp"
        /\ th[t].op = "Heartbeat"
        /\ cache' = [cache EXCEPT ![m] =
                       CASE th[t].outcome = "ok" -> maybeUpdate(@, th[t].update)
                         [] th[t].outcome = "condfailed" -> maybeUpdate(@, th[t].actual)
                         [] OTHER -> @]
        /\ invoked' = CASE th[t].outcome = "ok" -> maybeUpdateCallbacks(m, th[t].update)
                        [] th[t].outcome = "condfailed" ->
                               maybeUpdateCallbacks(m, th[t].actual)
                        [] OTHER -> invoked
        /\ metrics' = [metrics EXCEPT ![m] =
                         IF r = "ok" THEN [@ EXCEPT !.succ = @ + 1]
                         ELSE [@ EXCEPT !.fail = @ + 1]]
        /\ SemSet(m, m, FALSE)
        /\ th' = [th EXCEPT ![t] = Returned(t, r, FALSE)]
        /\ LoopAfter(t, r)
        /\ UNCHANGED <<store, gossiped, clock, heartbeatToken, heartbeatPaused>>
        /\ UNCHANGED <<faultsLeft, active>>
        /\ UNCHANGED <<callbacks, heartbeatCallback, alive, stalledSince, startEpoch>>

\* ------------------------------------------------------------------------
\* The heartbeat loop of StartHeartbeat
\* ------------------------------------------------------------------------
\* `case <-nl.heartbeatToken` at the head of an iteration (after the tick)
LoopTakeToken(t) ==
    /\ th[t].pc = "token"
    /\ heartbeatToken[Home(t)] > 0
    /\ HeartbeatsLeft(Home(t))
    /\ heartbeatToken' = [heartbeatToken EXCEPT ![Home(t)] = @ - 1]
    /\ th' = [th EXCEPT ![t] = [IdleThread EXCEPT !.pc = "call"]]
    /\ UNCHANGED <<store, gossiped, cache, clock, selfSem, otherSem,
                   heartbeatPaused, incrementEpoch, metrics>>
    /\ UNCHANGED <<faultsLeft, active>>
    /\ UNCHANGED <<callbacks, invoked, heartbeatCallback, alive, stalledSince, startEpoch>>

\* nl.Self() and the call of heartbeatInternal(ctx, liveness, incrementEpoch)
LoopHeartbeat(t) ==
    /\ th[t].pc = "call"
    /\ HeartbeatsLeft(Home(t))
    /\ th' = [th EXCEPT ![t] = [IdleThread EXCEPT
                 !.pc = "gate", !.op = "Heartbeat", !.target = Home(t),
                 !.liveness = cache[Home(t)][Home(t)],
                 !.incr = incrementEpoch[Home(t)]]]
    /\ UNCHANGED <<store, gossiped, cache, clock, selfSem, otherSem,
                   heartbeatToken, heartbeatPaused, incrementEpoch, metrics>>
    /\ UNCHANGED <<faultsLeft, active>>
    /\ UNCHANGED <<callbacks, invoked, heartbeatCallback, alive, stalledSince, startEpoch>>

\* r.Next() is false on a retry: the attempt's timeout has expired
LoopTimeout(t) ==
    /\ th[t].pc = "call"
    /\ th[t].result = "epoch_incremented"
    /\ th' = [th EXCEPT ![t].pc = "putToken"]
    /\ UNCHANGED <<store, gossiped, cache, clock, selfSem, otherSem,
                   heartbeatToken, heartbeatPaused, incrementEpoch, metrics>>
    /\ UNCHANGED <<faultsLeft, active>>
    /\ UNCHANGED <<callbacks, invoked, heartbeatCallback, alive, stalledSince, startEpoch>>

\* `nl.heartbeatToken <- struct{}{}` at the end of an iteration
LoopPutToken(t) ==
    /\ th[t].pc = "putToken"
    /\ heartbeatToken[Home(t)] < 1
    /\ heartbeatToken' = [heartbeatToken EXCEPT ![Home(t)] = @ + 1]
    /\ th' = [th EXCEPT ![t].pc = "token"]
    /\ UNCHANGED <<store, gossiped, cache, clock, selfSem, otherSem,
                   heartbeatPaused, incrementEpoch, metrics>>
    /\ UNCHANGED <<faultsLeft, active>>
    /\ UNCHANGED <<callbacks, invoked, heartbeatCallback, alive, stalledSince, startEpoch>>

\* ------------------------------------------------------------------------
\* PauseHeartbeat
\* ------------------------------------------------------------------------
\* where PauseHeartbeat(pause) goes after its compare-and-swap
PauseForgetsToken(swapped, pause) ==
    IF swapped /\ ~pause THEN "pausePut" ELSE "idle"
PauseContinues(swapped, pause) ==
    IF ~swapped THEN "idle" ELSE IF pause THEN "pauseTake" ELSE "pausePut"

\* PauseHeartbeat(pause): the compare-and-swap of nl.heartbeatPaused
PauseHeartbeat(t, pause) ==
    LET m == Home(t)
        swapped == heartbeatPaused[m] = (IF pause THEN 0 ELSE 1)
    IN  /\ th[t].pc = "idle"
        /\ heartbeatPaused' = IF swapped
                              THEN [heartbeatPaused EXCEPT ![m] = IF pause THEN 1 ELSE 0]
                              ELSE heartbeatPaused
        /\ th' = [th EXCEPT ![t] = [IdleThread EXCEPT
                     !.pc = PauseContinues(swapped, pause),
                     !.op = "PauseHeartbeat", !.arg = pause,
                     !.result = IF PauseContinues(swapped, pause) = "idle"
                                THEN "ok" ELSE "none"]]
        /\ UNCHANGED <<store, gossiped, cache, clock, selfSem, otherSem,
                       heartbeatToken, incrementEpoch, metrics>>
        /\ UNCHANGED <<faultsLeft, active>>
        /\ UNCHANGED <<callbacks, invoked, heartbeatCallback, alive, stalledSince, startEpoch>>

\* PauseHeartbeat(true): `<-nl.heartbeatToken`
PauseTakeToken(t) ==
    /\ th[t].pc = "pauseTake"
    /\ heartbeatToken[Home(t)] > 0
    /\ heartbeatToken' = [heartbeatToken EXCEPT ![Home(t)] = @ - 1]
    /\ th' = [th EXCEPT ![t].pc = "idle", ![t].result = "ok"]
    /\ UNCHANGED <<store, gossiped, cache, clock, selfSem, otherSem,
                   heartbeatPaused, incrementEpoch, metrics>>
    /\ UNCHANGED <<faultsLeft, active>>
    /\ UNCHANGED <<callbacks, invoked, heartbeatCallback, alive, stalledSince, startEpoch>>

\* PauseHeartbeat(false): `nl.heartbeatToken <- struct{}{}`
PausePutToken(t) ==
    /\ th[t].pc = "pausePut"
    /\ heartbeatToken[Home(t)] < 1
    /\ heartbeatToken' = [heartbeatToken EXCEPT ![Home(t)] = @ + 1]
    /\ th' = [th EXCEPT ![t].pc = "idle", ![t].result = "ok"]
    /\ UNCHANGED <<store, gossiped, cache, clock, selfSem, otherSem,
                   heartbeatPaused, incrementEpoch, metrics>>
    /\ UNCHANGED <<faultsLeft, active>>
    /\ UNCHANGED <<callbacks, invoked, heartbeatCallback, alive, stalledSince, startEpoch>>

\* ------------------------------------------------------------------------
\* IncrementEpoch
\* ------------------------------------------------------------------------
\* IncrementEpoch(ctx, liveness) called with the caller's cached record of n
IncrementEpoch(t, n) ==
    /\ th[t].pc = "idle"
    /\ th[t].calls < MaxCalls
    /\ cache[Home(t)][n] # Empty
    /\ th' = [th EXCEPT ![t] = [IdleThread EXCEPT
                 !.pc = "gate", !.op = "IncrementEpoch", !.target = n,
                 !.liveness = cache[Home(t)][n], !.calls = th[t].calls + 1]]
    /\ UNCHANGED <<store, gossiped, cache, clock, selfSem, otherSem,
                   heartbeatToken, heartbeatPaused, incrementEpoch, metrics>>
    /\ UNCHANGED <<faultsLeft, active>>
    /\ UNCHANGED <<callbacks, invoked, heartbeatCallback, alive, stalledSince, startEpoch>>

\* IncrementEpoch refuses a record that is live at the caller's clock
IncrementNeverRefused(l, now) == FALSE
IncrementRefused(l, now) == IsLive(l, now)

\* the record IncrementEpoch proposes: `update.Epoch++`
IncrementUpdateResetsFlags(liveness) ==
    [liveness EXCEPT !.epoch = @ + 1, !.draining = FALSE]
IncrementUpdate(liveness) == [liveness EXCEPT !.epoch = @ + 1]

\* IncrementEpoch up to updateLiveness: the gate, the liveness check, the update
IncrementEpochStart(t) ==
    LET m == Home(t) IN
        /\ th[t].pc = "gate"
        /\ th[t].op = "IncrementEpoch"
        /\ SemFree(m, th[t].target)
        /\ IF IncrementRefused(th[t].liveness, clock[m])
           THEN /\ th' = [th EXCEPT ![t] = Returned(t, "cannot_increment_live", FALSE)]
                /\ UNCHANGED <<selfSem, otherSem>>
           ELSE /\ th' = [th EXCEPT ![t].pc = "sync",
                                    ![t].update = IncrementUpdate(th[t].liveness)]
                /\ SemSet(m, th[t].target, TRUE)
        /\ UNCHANGED <<store, gossiped, cache, clock, heartbeatToken,
                       heartbeatPaused, incrementEpoch, metrics>>
        /\ UNCHANGED <<faultsLeft, active>>
        /\ UNCHANGED <<callbacks, invoked, heartbeatCallback, alive, stalledSince, startEpoch>>

\* the error handleCondFailed of IncrementEpoch returns for the actual record
IncrementCondFailedStrict(actual, liveness) ==
    IF actual.epoch < liveness.epoch THEN "unexpected_epoch" ELSE "mismatch"
IncrementCondFailed(actual, liveness) ==
    IF actual.epoch > liveness.epoch THEN "ok"
    ELSE IF actual.epoch < liveness.epoch THEN "unexpected_epoch"
    ELSE "mismatch"

\* IncrementEpoch after updateLiveness: cache, counter, gate, result
IncrementEpochReturn(t) ==
    LET m == Home(t)
        r == CASE th[t].outcome = "ok" -> "ok"
               [] th[t].outcome = "condfailed" ->
                      IncrementCondFailed(th[t].actual, th[t].liveness)
               [] OTHER -> "error"
    IN  /\ th[t].pc = "resp"
        /\ th[t].op = "IncrementEpoch"
        /\ cache' = [cache EXCEPT ![m] =
                       CASE th[t].outcome = "ok" -> maybeUpdate(@, th[t].update)
                         [] th[t].outcome = "condfailed" -> maybeUpdate(@, th[t].actual)
                         [] OTHER -> @]
        /\ invoked' = CASE th[t].outcome = "ok" -> maybeUpdateCallbacks(m, th[t].update)
                        [] th[t].outcome = "condfailed" ->
                               maybeUpdateCallbacks(m, th[t].actual)
                        [] OTHER -> invoked
        /\ metrics' = [metrics EXCEPT ![m].epochinc =
                         IF th[t].outcome = "ok" THEN @ + 1 ELSE @]
        /\ SemSet(m, th[t].target, FALSE)
        /\ th' = [th EXCEPT ![t] = Returned(t, r, FALSE)]
        /\ UNCHANGED <<store, gossiped, clock, heartbeatToken, heartbeatPaused,
                       incrementEpoch>>
        /\ UNCHANGED <<faultsLeft, active>>
        /\ UNCHANGED <<callbacks, heartbeatCallback, alive, stalledSince, startEpoch>>

\* ------------------------------------------------------------------------
\* SetDraining
\* ------------------------------------------------------------------------
\* SetDraining(ctx, drain): nl.Self() and the call of setDrainingInternal
SetDraining(t, drain) ==
    /\ th[t].pc = "idle"
    /\ th[t].calls < MaxCalls
    /\ th' = [th EXCEPT ![t] = [IdleThread EXCEPT
                 !.pc = "gate", !.op = "SetDraining", !.target = Home(t),
                 !.liveness = cache[Home(t)][Home(t)], !.arg = drain,
                 !.calls = th[t].calls + 1]]
    /\ UNCHANGED <<store, gossiped, cache, clock, selfSem, otherSem,
                   heartbeatToken, heartbeatPaused, incrementEpoch, metrics>>
    /\ UNCHANGED <<faultsLeft, active>>
    /\ UNCHANGED <<callbacks, invoked, heartbeatCallback, alive, stalledSince, startEpoch>>

\* SetDraining: setDrainingInternal returned an error; nl.Self() is read again
\* and setDrainingInternal called again
SetDrainingRetry(t) ==
    /\ th[t].pc = "retry"
    /\ th' = [th EXCEPT ![t].pc = "gate", ![t].result = "none",
                        ![t].liveness = cache[Home(t)][Home(t)]]
    /\ UNCHANGED <<store, gossiped, cache, clock, selfSem, otherSem,
                   heartbeatToken, heartbeatPaused, incrementEpoch, metrics>>
    /\ UNCHANGED <<faultsLeft, active>>
    /\ UNCHANGED <<callbacks, invoked, heartbeatCallback, alive, stalledSince, startEpoch>>

\* setDrainingInternal up to updateLiveness: the gate and the update
setDrainingInternal(t) ==
    LET m == Home(t)
        base == IF th[t].liveness = Empty THEN NewLiveness(m) ELSE th[t].liveness
    IN  /\ th[t].pc = "gate"
        /\ th[t].op = "SetDraining"
        /\ SemFree(m, m)
        /\ SemSet(m, m, TRUE)
        /\ th' = [th EXCEPT ![t].pc = "sync",
                            ![t].update = [base EXCEPT !.draining = th[t].arg]]
        /\ UNCHANGED <<store, gossiped, cache, clock, heartbeatToken,
                       heartbeatPaused, incrementEpoch, metrics>>
        /\ UNCHANGED <<faultsLeft, active>>
        /\ UNCHANGED <<callbacks, invoked, heartbeatCallback, alive, stalledSince, startEpoch>>

\* the error handleCondFailed of setDrainingInternal returns for the actual record
DrainCondFailedIgnored(actual, update) == "ok"
DrainCondFailed(actual, update) ==
    IF actual.draining = update.draining THEN "ok" ELSE "failed_to_update"

\* setDrainingInternal after updateLiveness: cache, gate, result
setDrainingInternalReturn(t) ==
    LET m == Home(t)
        r == CASE th[t].outcome = "ok" -> "ok"
               [] th[t].outcome = "condfailed" ->
                      DrainCondFailed(th[t].actual, th[t].update)
               [] OTHER -> "error"
    IN  /\ th[t].pc = "resp"
        /\ th[t].op = "SetDraining"
        /\ cache' = [cache EXCEPT ![m] =
                       CASE th[t].outcome = "ok" -> maybeUpdate(@, th[t].update)
                         [] th[t].outcome = "condfailed" -> maybeUpdate(@, th[t].actual)
                         [] OTHER -> @]
        /\ invoked' = CASE th[t].outcome = "ok" -> maybeUpdateCallbacks(m, th[t].update)
                        [] th[t].outcome = "condfailed" ->
                               maybeUpdateCallbacks(m, th[t].actual)
                        [] OTHER -> invoked
        /\ SemSet(m, m, FALSE)
        /\ th' = [th EXCEPT ![t] = Returned(t, r, FALSE)]
        /\ UNCHANGED <<store, gossiped, clock, heartbeatToken, heartbeatPaused,
                       incrementEpoch, metrics>>
        /\ UNCHANGED <<faultsLeft, active>>
        /\ UNCHANGED <<callbacks, heartbeatCallback, alive, stalledSince, startEpoch>>

\* ------------------------------------------------------------------------
\* SetDecommissioning
\* ------------------------------------------------------------------------
\* SetDecommissioning(ctx, nodeID, decommission) is called
SetDecommissioning(t, n, decommission) ==
    /\ th[t].pc = "idle"
    /\ th[t].calls < MaxCalls
    /\ th' = [th EXCEPT ![t] = [IdleThread EXCEPT
                 !.pc = "gate", !.op = "SetDecommissioning", !.target = n,
                 !.arg = decommission, !.calls = th[t].calls + 1]]
    /\ UNCHANGED <<store, gossiped, cache, clock, selfSem, otherSem,
                   heartbeatToken, heartbeatPaused, incrementEpoch, metrics>>
    /\ UNCHANGED <<faultsLeft, active>>
    /\ UNCHANGED <<callbacks, invoked, heartbeatCallback, alive, stalledSince, startEpoch>>

\* attempt(): the gate of the target is acquired
SetDecommissioningGate(t) ==
    /\ th[t].pc = "gate"
    /\ th[t].op = "SetDecommissioning"
    /\ SemFree(Home(t), th[t].target)
    /\ SemSet(Home(t), th[t].target, TRUE)
    /\ th' = [th EXCEPT ![t].pc = "read"]
    /\ UNCHANGED <<store, gossiped, cache, clock, heartbeatToken,
                   heartbeatPaused, incrementEpoch, metrics>>
    /\ UNCHANGED <<faultsLeft, active>>
    /\ UNCHANGED <<callbacks, invoked, heartbeatCallback, alive, stalledSince, startEpoch>>

\* attempt(): the record db.GetProto reads under keys.NodeLivenessKey(nodeID)
GetProtoFromCache(t) == cache[Home(t)][th[t].target]
GetProto(t) == store[th[t].target]

\* attempt(): db.GetProto of the record, maybeUpdate(oldLiveness), and the
\* update of setDecommissioningInternal
SetDecommissioningRead(t) ==
    LET m == Home(t)
        oldLiveness == GetProto(t)
    IN  /\ th[t].pc = "read"
        /\ IF oldLiveness = Empty
           THEN /\ th' = [th EXCEPT ![t] = Returned(t, "no_liveness_record", FALSE)]
                /\ SemSet(m, th[t].target, FALSE)
                /\ UNCHANGED <<cache, invoked>>
           ELSE /\ th' = [th EXCEPT ![t].pc = "sync", ![t].liveness = oldLiveness,
                            ![t].update =
                                [oldLiveness EXCEPT !.decommissioning = th[t].arg]]
                /\ cache' = [cache EXCEPT ![m] = maybeUpdate(@, oldLiveness)]
                /\ invoked' = maybeUpdateCallbacks(m, oldLiveness)
                /\ UNCHANGED <<selfSem, otherSem>>
        /\ UNCHANGED <<store, gossiped, clock, heartbeatToken, heartbeatPaused,
                       incrementEpoch, metrics>>
        /\ UNCHANGED <<faultsLeft, active>>
        /\ UNCHANGED <<callbacks, heartbeatCallback, alive, stalledSince, startEpoch>>

\* attempt(): db.GetProto fails
SetDecommissioningReadFails(t) ==
    /\ th[t].pc = "read"
    /\ th' = [th EXCEPT ![t] = Returned(t, "error", FALSE)]
    /\ SemSet(Home(t), th[t].target, FALSE)
    /\ UNCHANGED <<store, gossiped, cache, clock, heartbeatToken,
                   heartbeatPaused, incrementEpoch, metrics>>
    /\ faultsLeft > 0
    /\ faultsLeft' = faultsLeft - 1
    /\ UNCHANGED active
    /\ UNCHANGED <<callbacks, invoked, heartbeatCallback, alive, stalledSince, startEpoch>>

\* setDecommissioningInternal: `!conditionFailed && liveness.Decommissioning != decommission`
changeCommitted(outcome, liveness, decommission) ==
    outcome = "ok" /\ liveness.decommissioning # decommission

\* setDecommissioningInternal after updateLiveness and the end of attempt()
setDecommissioningInternalReturnInstalls(t) ==
    LET m == Home(t)
        r == CASE th[t].outcome = "ok" -> "ok"
               [] th[t].outcome = "condfailed" ->
                      IF th[t].actual.decommissioning = th[t].update.decommissioning
                      THEN "ok" ELSE "change_decommissioning_failed"
               [] OTHER -> "error"
    IN  /\ th[t].pc = "resp"
        /\ th[t].op = "SetDecommissioning"
        /\ SemSet(m, th[t].target, FALSE)
        /\ th' = [th EXCEPT ![t] =
                    Returned(t, r, r = "ok" /\ changeCommitted(th[t].outcome,
                                                  th[t].liveness, th[t].arg))]
        /\ cache' = [cache EXCEPT ![m] =
                       CASE th[t].outcome = "ok" -> maybeUpdate(@, th[t].update)
                         [] th[t].outcome = "condfailed" -> maybeUpdate(@, th[t].actual)
                         [] OTHER -> @]
        /\ UNCHANGED <<store, gossiped, clock, heartbeatToken,
                       heartbeatPaused, incrementEpoch, metrics>>
        /\ UNCHANGED <<faultsLeft, active>>
        /\ UNCHANGED <<callbacks, invoked, heartbeatCallback, alive, stalledSince, startEpoch>>
setDecommissioningInternalReturn(t) ==
    LET m == Home(t)
        r == CASE th[t].outcome = "ok" -> "ok"
               [] th[t].outcome = "condfailed" ->
                      IF th[t].actual.decommissioning = th[t].update.decommissioning
                      THEN "ok" ELSE "change_decommissioning_failed"
               [] OTHER -> "error"
    IN  /\ th[t].pc = "resp"
        /\ th[t].op = "SetDecommissioning"
        /\ SemSet(m, th[t].target, FALSE)
        /\ th' = [th EXCEPT ![t] =
                    Returned(t, r, r = "ok" /\ changeCommitted(th[t].outcome,
                                                  th[t].liveness, th[t].arg))]
        /\ UNCHANGED <<store, gossiped, cache, clock, heartbeatToken,
                       heartbeatPaused, incrementEpoch, metrics>>
        /\ UNCHANGED <<faultsLeft, active>>
        /\ UNCHANGED <<callbacks, invoked, heartbeatCallback, alive, stalledSince, startEpoch>>

\* ------------------------------------------------------------------------
\* Queries on the cache of node m
\* ------------------------------------------------------------------------
\* getLivenessLocked: the record of nodeID, or ErrNoLivenessRecord
getLivenessLocked(m, nodeID) ==
    IF cache[m][nodeID] = Empty
    THEN [liveness |-> Empty, err |-> "no_liveness_record"]
    ELSE [liveness |-> cache[m][nodeID], err |-> "none"]

\* (nl *NodeLiveness).IsLive(nodeID)
NodeIsLiveAnyRecord(m, nodeID) ==
    [live |-> getLivenessLocked(m, nodeID).err = "none",
     err |-> getLivenessLocked(m, nodeID).err]
NodeIsLive(m, nodeID) ==
    LET got == getLivenessLocked(m, nodeID) IN
        IF got.err # "none" THEN [live |-> FALSE, err |-> got.err]
        ELSE [live |-> IsLive(got.liveness, clock[m]), err |-> "none"]

\* GetIsLiveMap: one entry per cached record, except the records that are
\* neither live nor in service (dead and decommissioning)
GetIsLiveMapOfAllCached(m) ==
    [nID \in {n \in Nodes : cache[m][n] # Empty} |->
        [IsLive |-> IsLive(cache[m][nID], clock[m]),
         Epoch |-> cache[m][nID].epoch]]
GetIsLiveMap(m) ==
    [nID \in {n \in Nodes : /\ cache[m][n] # Empty
                            /\ ~(/\ ~IsLive(cache[m][n], clock[m])
                                 /\ cache[m][n].decommissioning)} |->
        [IsLive |-> IsLive(cache[m][nID], clock[m]),
         Epoch |-> cache[m][nID].epoch]]

\* Liveness.LivenessStatus(now, threshold, maxOffset): dead once expired for
\* the dead timeout, decommissioned when dead and decommissioning
LivenessStatus(l, now) ==
    IF now >= l.expiration + TimeUntilStoreDead
    THEN (IF l.decommissioning THEN "DECOMMISSIONED" ELSE "DEAD")
    ELSE IF l.decommissioning THEN "DECOMMISSIONING"
    ELSE IF l.draining THEN "UNAVAILABLE"
    ELSE IF IsLive(l, now) THEN "LIVE"
    ELSE "UNAVAILABLE"

\* GetLivenesses: the cached records
GetLivenesses(m) == {cache[m][n] : n \in {k \in NodeIDs : cache[m][k] # Empty}}

\* GetLivenessStatusMap: the status of every record of GetLivenesses, under
\* the record's node ID
GetLivenessStatusMap(m) ==
    [nID \in {l.node_id : l \in GetLivenesses(m)} |->
        LivenessStatus(CHOOSE l \in GetLivenesses(m) : l.node_id = nID, clock[m])]

\* a goroutine of node Home(t) calls GetIsLiveMap()
QueryIsLiveMap(t) ==
    /\ th[t].pc = "idle"
    /\ th' = [th EXCEPT ![t] = [IdleThread EXCEPT
                 !.op = "GetIsLiveMap", !.result = "ok",
                 !.answer = GetIsLiveMap(Home(t))]]
    /\ UNCHANGED <<store, gossiped, cache, clock, selfSem, otherSem,
                   heartbeatToken, heartbeatPaused, incrementEpoch, metrics>>
    /\ UNCHANGED <<faultsLeft, active>>
    /\ UNCHANGED <<callbacks, invoked, heartbeatCallback, alive, stalledSince, startEpoch>>

\* a goroutine of node Home(t) calls GetLivenessStatusMap()
QueryLivenessStatusMap(t) ==
    /\ th[t].pc = "idle"
    /\ th' = [th EXCEPT ![t] = [IdleThread EXCEPT
                 !.op = "GetLivenessStatusMap", !.result = "ok",
                 !.answer = GetLivenessStatusMap(Home(t))]]
    /\ UNCHANGED <<store, gossiped, cache, clock, selfSem, otherSem,
                   heartbeatToken, heartbeatPaused, incrementEpoch, metrics>>
    /\ UNCHANGED <<faultsLeft, active>>
    /\ UNCHANGED <<callbacks, invoked, heartbeatCallback, alive, stalledSince, startEpoch>>

\* numLiveNodes: 0 unless this node holds a live record of itself
numLiveNodes(m) ==
    LET self == getLivenessLocked(m, m) IN
        IF self.err # "none" THEN 0
        ELSE IF ~IsLive(self.liveness, clock[m]) THEN 0
        ELSE Cardinality({n \in Nodes : /\ cache[m][n] # Empty
                                        /\ IsLive(cache[m][n], clock[m])})

\* the function AsLiveClock returns, applied to nodeID
AsLiveClock(m, nodeID) ==
    LET now == clock[m]
        got == getLivenessLocked(m, nodeID)
    IN  IF got.err # "none" THEN [ts |-> 0, epoch |-> 0, err |-> got.err]
        ELSE IF ~IsLive(got.liveness, now)
             THEN [ts |-> 0, epoch |-> 0, err |-> "not_live"]
        ELSE [ts |-> now, epoch |-> got.liveness.epoch, err |-> "none"]

\* ------------------------------------------------------------------------
\* Specifications
\* ------------------------------------------------------------------------
\* the steps of updateLiveness, whatever the operation
UpdateLiveness(t) ==
    \/ ContextDone(t)
    \/ EngineSync(t)
    \/ EngineSyncFails(t)
    \/ CachedConditionFailed(t)
    \/ CPutCommits(t)
    \/ CPutConditionFailed(t)
    \/ CPutAmbiguous(t)
    \/ CPutError(t)

Environment ==
    \/ \E m \in Nodes : Tick(m)
    \/ \E m \in Nodes : livenessGossipUpdate(m, 1)

LoopSteps ==
    \E t \in active \cap LoopThreads :
        \/ LoopTakeToken(t)
        \/ LoopHeartbeat(t)
        \/ LoopTimeout(t)
        \/ LoopPutToken(t)
        \/ heartbeatInternal(t)
        \/ heartbeatInternalReturn(t)

HeartbeatSteps ==
    \E t \in active \cap HbThreads :
        \/ Heartbeat(t)
        \/ heartbeatInternal(t)
        \/ heartbeatInternalReturn(t)

DrainSteps ==
    \E t \in active \cap DrainThreads :
        \/ \E drain \in BOOLEAN : SetDraining(t, drain)
        \/ SetDrainingRetry(t)
        \/ setDrainingInternal(t)
        \/ setDrainingInternalReturn(t)

IncrementSteps ==
    \E t \in active \cap IncThreads :
        \/ IncrementEpoch(t, 1)
        \/ IncrementEpochStart(t)
        \/ IncrementEpochReturn(t)

DecommissionSteps ==
    \E t \in active \cap DecThreads :
        \/ \E d \in BOOLEAN : SetDecommissioning(t, 1, d)
        \/ SetDecommissioningGate(t)
        \/ SetDecommissioningRead(t)
        \/ SetDecommissioningReadFails(t)
        \/ setDecommissioningInternalReturn(t)

QuerySteps ==
    \E t \in active \cap QueryThreads :
        \/ QueryIsLiveMap(t)
        \/ QueryLivenessStatusMap(t)

PauseSteps ==
    \E t \in active \cap PauseThreads :
        \/ \E pause \in BOOLEAN : PauseHeartbeat(t, pause)
        \/ PauseTakeToken(t)
        \/ PausePutToken(t)

\* All four mutations on the record of node 1: node 1 heartbeats and drains
\* itself, node 2 increments the epoch of node 1 and decommissions it.
Init ==
    \/ \E stored \in {NoRecords, OldRecords} :
           InitWith({"loop1", "inc2", "dec2"}, 0, stored)
    \/ InitWith({"drain1", "inc2", "dec2"}, MaxFaults, NoRecords)
    \/ InitWith({"loop1", "drain1"}, MaxFaults, NoRecords)

Next ==
    \/ Environment
    \/ LoopSteps
    \/ DrainSteps
    \/ IncrementSteps
    \/ DecommissionSteps
    \/ \E t \in active : UpdateLiveness(t)

Spec == Init /\ [][Next]_vars

\* The heartbeat loop of node 1 against epoch increments by node 2.
InitHB ==
    \E stored \in {NoRecords, OldRecords} :
        InitWith({"loop1", "inc2"}, MaxFaults, stored)

NextHB ==
    \/ Environment
    \/ LoopSteps
    \/ IncrementSteps
    \/ \E t \in active : UpdateLiveness(t)

SpecHB == InitHB /\ [][NextHB]_vars

\* The heartbeat loop of node 1, PauseHeartbeat and SetDraining on node 1.
InitPause == InitWith({"loop1", "pause1", "drain1"}, 0, NoRecords)

NextPause ==
    \/ Environment
    \/ LoopSteps
    \/ DrainSteps
    \/ PauseSteps
    \/ \E t \in active : UpdateLiveness(t)

SpecPause == InitPause /\ [][NextPause]_vars

\* SetDecommissioning(1, true) by node 1 and by node 2, while node 1 heartbeats;
\* the only failure injected is an ambiguous result.
InitDecom ==
    \/ InitWith({"dec1", "dec2"}, MaxFaults, OldRecords)
    \/ InitWith({"dec1", "dec2", "loop1"}, 0, OldRecords)

NextDecom ==
    \/ Environment
    \/ LoopSteps
    \/ \E t \in active \cap DecThreads :
          \/ SetDecommissioning(t, 1, TRUE)
          \/ SetDecommissioningGate(t)
          \/ SetDecommissioningRead(t)
          \/ setDecommissioningInternalReturn(t)
    \/ \E t \in active :
          \/ EngineSync(t)
          \/ CachedConditionFailed(t)
          \/ CPutCommits(t)
          \/ CPutConditionFailed(t)
          \/ CPutAmbiguous(t)

SpecDecom == InitDecom /\ [][NextDecom]_vars

\* A node that restarts: its heartbeat loop and a direct caller of Heartbeat,
\* on an empty store or on a record written with a clock that was ahead; and
\* a direct caller of Heartbeat against epoch increments by node 2.
InitRestart ==
    \/ InitWith({"loop1", "hb1"}, MaxFaults, NoRecords)
    \/ InitWith({"loop1", "hb1"}, 0, AheadRecords)
    \/ InitWith({"hb1", "inc2"}, 0, NoRecords)

NextRestart ==
    \/ Environment
    \/ LoopSteps
    \/ HeartbeatSteps
    \/ IncrementSteps
    \/ \E t \in active : UpdateLiveness(t)

SpecRestart == InitRestart /\ [][NextRestart]_vars

\* SetDraining on node 1 while its heartbeat loop runs and node 2 increments
\* the epoch of node 1.  Every goroutine that can take a step eventually takes
\* one, and the KV layer eventually answers every call.
InitDrain ==
    \/ InitWith({"loop1", "drain1", "inc2"}, 0, NoRecords)
    \/ InitWith({"loop1", "drain1"}, MaxFaults, NoRecords)

NextDrain ==
    \/ Environment
    \/ LoopSteps
    \/ DrainSteps
    \/ IncrementSteps
    \/ \E t \in active : UpdateLiveness(t)

FairDrain ==
    /\ WF_vars(LoopSteps)
    /\ WF_vars(DrainSteps)
    /\ \A t \in {"loop1", "drain1"} : WF_vars(UpdateLiveness(t))

SpecDrain == InitDrain /\ [][NextDrain]_vars /\ FairDrain

\* Callbacks: IsLiveCallbacks are registered on node 2 while node 1
\* heartbeats, through its loop or through a direct caller, and node 2
\* increments the epoch of node 1; StartHeartbeat was given a HeartbeatCallback.
InitCallbacks ==
    \/ InitState({"loop1", "inc2"}, 0, OldRecords, TRUE)
    \/ \E stored \in {NoRecords, OldRecords} :
           InitState({"hb1", "inc2"}, MaxFaults, stored, TRUE)

NextCallbacks ==
    \/ Environment
    \/ \E cb \in Callbacks : RegisterCallback(2, cb)
    \/ LoopSteps
    \/ HeartbeatSteps
    \/ IncrementSteps
    \/ \E t \in active : UpdateLiveness(t)

SpecCallbacks == InitCallbacks /\ [][NextCallbacks]_vars

\* Disk stall: the engines of node 1 stall at some time while its heartbeat
\* loop runs and node 2 increments the epoch of node 1.
InitStall ==
    \E stored \in {NoRecords, OldRecords} :
        InitWith({"loop1", "inc2"}, 0, stored)

NextStall ==
    \/ \E m \in Nodes : TickUpTo(m, MaxStallTime)
    \/ \E m \in Nodes : livenessGossipUpdate(m, 1)
    \/ EngineStalls(1)
    \/ LoopSteps
    \/ IncrementSteps
    \/ \E t \in active : UpdateLiveness(t)

SpecStall == InitStall /\ [][NextStall]_vars

\* The mutator API called directly: Heartbeat on node 1, IncrementEpoch of
\* node 1 by both nodes, SetDecommissioning of node 1 by node 2, with and
\* without a record in the store and with a record written by a clock that
\* was ahead.
InitAPI ==
    \/ InitWith({"hb1", "inc1", "inc2"}, MaxFaults, OldRecords)
    \/ \E stored \in {NoRecords, OldRecords} :
           InitWith({"hb1", "dec2"}, MaxFaults, stored)
    \/ InitWith({"hb1", "dec2"}, 0, AheadRecords)

\* Queries on node 2 while node 2 decommissions node 1 and node 1 heartbeats
\* or not: the record of node 1 expires with or without the mark.
InitQuery == InitWith({"hb1", "dec2", "query2"}, 0, OldRecords)

NextQuery ==
    \/ \E m \in Nodes : Tick(m)
    \/ \E m \in Nodes, n \in Nodes : livenessGossipUpdate(m, n)
    \/ HeartbeatSteps
    \/ DecommissionSteps
    \/ QuerySteps
    \/ \E t \in active : UpdateLiveness(t)

SpecQuery == InitQuery /\ [][NextQuery]_vars

\* The gates: on node 1 the heartbeat loop and SetDraining contend for the
\* self gate, on node 2 IncrementEpoch and SetDecommissioning of node 1
\* contend for the gate of the others; a context may be done at the gate.
\* Every goroutine that can take a step eventually takes one, and the KV
\* layer and the disks eventually answer.
InitGate ==
    \/ InitWith({"loop1", "drain1"}, MaxFaults, NoRecords)
    \/ InitWith({"inc2", "dec2"}, MaxFaults, OldRecords)

NextGate ==
    \/ Next
    \/ \E t \in active : GateContextDone(t)

FairGate ==
    /\ WF_vars(LoopSteps)
    /\ WF_vars(DrainSteps)
    /\ WF_vars(IncrementSteps)
    /\ WF_vars(DecommissionSteps)
    /\ \A t \in {"loop1", "drain1", "inc2", "dec2"} : WF_vars(UpdateLiveness(t))

SpecGate == InitGate /\ [][NextGate]_vars /\ FairGate

\* SetDecommissioning of node 1 racing with the writers of its record: the
\* heartbeat of node 1, or IncrementEpoch called on node 2 while
\* SetDecommissioning runs on node 1, so that the two do not share a gate.
\* Every goroutine that can take a step eventually takes one; the writers
\* make a bounded number of calls.
InitRetry ==
    \/ InitWith({"hb1", "dec2"}, MaxFaults, OldRecords)
    \/ InitWith({"inc2", "dec1"}, MaxFaults, OldRecords)

NextRetry ==
    \/ Environment
    \/ HeartbeatSteps
    \/ IncrementSteps
    \/ DecommissionSteps
    \/ \E t \in active : UpdateLiveness(t)

FairRetry ==
    /\ WF_vars(HeartbeatSteps)
    /\ WF_vars(IncrementSteps)
    /\ WF_vars(DecommissionSteps)
    /\ \A t \in {"hb1", "inc2", "dec1", "dec2"} : WF_vars(UpdateLiveness(t))

SpecRetry == InitRetry /\ [][NextRetry]_vars /\ FairRetry

\* Overlapping PauseHeartbeat calls: two goroutines of node 1 call
\* PauseHeartbeat while the heartbeat loop of node 1 runs.
InitOverlap == InitWith({"loop1", "pause1", "pause1b"}, 0, NoRecords)

NextOverlap ==
    \/ Environment
    \/ LoopSteps
    \/ PauseSteps
    \/ \E t \in active : UpdateLiveness(t)

SpecOverlap == InitOverlap /\ [][NextOverlap]_vars

NextAPI ==
    \/ Environment
    \/ HeartbeatSteps
    \/ IncrementSteps
    \/ DecommissionSteps
    \/ \E t \in active : UpdateLiveness(t)

SpecAPI == InitAPI /\ [][NextAPI]_vars

\* ------------------------------------------------------------------------
\* Properties
\* ------------------------------------------------------------------------
\* thread t takes the step of its conditional put (or of the cache pre-check)
Puts(t) == th[t].pc = "cput" /\ th'[t] # th[t]

\* thread t takes the step of its conditional put and the put commits
Writes(t) == Puts(t) /\ store' # store

\* thread t holds the gate of its target
HoldsGate(t) == th[t].pc \in {"read", "sync", "cput", "resp"}

\* C1: the epoch of a node's stored record and the epoch of every cache entry
\* for a node never decrease, under every interleaving of the mutations and
\* with gossiped records delivered in any order.
C1_EpochNeverDecreases ==
    [][\A n \in Nodes :
          /\ store'[n].epoch >= store[n].epoch
          /\ \A m \in Nodes : cache'[m][n].epoch >= cache[m][n].epoch]_vars

\* both caches hold epoch 2 or more of node 1 while records of a lower epoch
\* are still around to be delivered
C1_Witness ==
    /\ store[1].epoch >= 2
    /\ \A m \in Nodes : cache[m][1].epoch >= 2
    /\ \E l \in gossiped[1] : l.epoch < 2

\* C2 (as stated): every committed write that increases a stored epoch, by a
\* peer's IncrementEpoch or by the node's own Heartbeat with increment_epoch,
\* replaces a record that is not live at the writer's clock.
C2_EveryIncrementReplacesDead ==
    [][\A t \in active :
          (Writes(t) /\ store'[th[t].target].epoch > store[th[t].target].epoch)
              => ~IsLive(store[th[t].target], clock[Home(t)])]_vars

\* C2 (amended): every committed write of IncrementEpoch replaces a record
\* that is not live at the writer's clock.
C2_IncrementEpochReplacesDead ==
    [][\A t \in active :
          (Writes(t) /\ th[t].op = "IncrementEpoch")
              => /\ store'[th[t].target].epoch = store[th[t].target].epoch + 1
                 /\ ~IsLive(store[th[t].target], clock[Home(t)])]_vars

\* an IncrementEpoch has just committed epoch + 1
C2_Witness ==
    \E t \in active \cap IncThreads :
        /\ th[t].pc = "resp"
        /\ th[t].outcome = "ok"
        /\ store[th[t].target] = th[t].update
        /\ th[t].update.epoch = th[t].liveness.epoch + 1

\* C3: every committed conditional put that replaces an existing record either
\* increases its epoch or keeps the epoch with an expiration that is not earlier.
C3_SuccessorChain ==
    [][\A n \in Nodes :
          (store'[n] # store[n] /\ store[n] # Empty)
              => \/ store'[n].epoch > store[n].epoch
                 \/ /\ store'[n].epoch = store[n].epoch
                    /\ store'[n].expiration >= store[n].expiration]_vars

\* the record of node 1 has been replaced both ways: by a greater epoch and
\* then by a later expiration at the same epoch
C3_Witness ==
    \E a, b, c \in gossiped[1] :
        /\ a.epoch < b.epoch
        /\ b.epoch = c.epoch
        /\ b.expiration < c.expiration
        /\ store[1] = c

\* C4: IncrementEpoch(L) with L live at the caller's clock returns
\* cannot-increment-live without a conditional put: the store, the caches
\* and the epochincrements counter are unchanged and the gate is released.
C4_LiveNotIncremented ==
    [][\A t \in active :
          (/\ th[t].pc = "gate"
           /\ th[t].op = "IncrementEpoch"
           /\ IsLive(th[t].liveness, clock[Home(t)])
           /\ th'[t] # th[t])
              => /\ th'[t].pc = "idle"
                 /\ th'[t].result = "cannot_increment_live"
                 /\ store' = store
                 /\ gossiped' = gossiped
                 /\ cache' = cache
                 /\ metrics' = metrics
                 /\ ~selfSem'[Home(t)]
                 /\ ~otherSem'[Home(t)]]_vars

\* an IncrementEpoch of a live record has returned
C4_Witness ==
    \E t \in active \cap IncThreads :
        /\ th[t].pc = "idle"
        /\ th[t].result = "cannot_increment_live"
        /\ store[1] # Empty

\* C5: per node, at most one operation on the local record holds the self
\* gate and at most one operation on any other node's record holds the peer
\* gate, so at most one conditional put of each kind is in flight.
C5_OneInFlight ==
    \A m \in Nodes :
        /\ Cardinality({t \in active :
               Home(t) = m /\ HoldsGate(t) /\ th[t].target = m}) <= 1
        /\ Cardinality({t \in active :
               Home(t) = m /\ HoldsGate(t) /\ th[t].target # m}) <= 1

\* one operation is at its conditional put while another operation of the
\* same node on the same record waits at the gate
C5_Witness ==
    \E t, u \in active :
        /\ t # u
        /\ Home(t) = Home(u)
        /\ th[t].target = th[u].target
        /\ th[t].pc = "cput"
        /\ th[u].pc = "gate"

\* PauseHeartbeat(true) has returned on node m and PauseHeartbeat(false) has
\* not been called since
Paused(m) ==
    /\ heartbeatPaused[m] = 1
    /\ \A t \in active \cap PauseThreads : Home(t) = m => th[t].pc = "idle"

\* C6 (as stated): while a node is paused, no conditional put for its own
\* record is issued by it, neither by the heartbeat loop nor by any other
\* caller of Heartbeat or SetDraining.
C6_NoPutWhilePaused ==
    [][\A t \in active :
          (Paused(Home(t)) /\ th[t].target = Home(t)) => ~Puts(t)]_vars

\* C6 (amended): while a node is paused, its heartbeat loop holds no token
\* and has no heartbeat and no conditional put in progress.
C6_LoopIdleWhilePaused ==
    \A m \in Nodes :
        (Paused(m) /\ LoopOf(m) \in active)
            => /\ th[LoopOf(m)].pc = "token"
               /\ heartbeatToken[m] = 0

\* node 1 is paused after its loop has heartbeated
C6_Witness ==
    /\ Paused(1)
    /\ metrics[1].succ >= 1
    /\ store[1] # Empty

\* C7: two concurrent SetDecommissioning(n, true) on a record whose flag is
\* false both return without error and exactly one of them returns
\* changed = true, also when heartbeats interleave.
C7_ExactlyOneChanged ==
    \A t, u \in active \cap DecThreads :
        (/\ t # u
         /\ th[t].pc = "idle" /\ th[t].calls = 1 /\ th[t].arg
         /\ th[u].pc = "idle" /\ th[u].calls = 1 /\ th[u].arg)
            => /\ th[t].result = "ok"
               /\ th[u].result = "ok"
               /\ th[t].changed # th[u].changed

\* C8: the decommissioning flag of a stored record changes only through a
\* committed write of SetDecommissioning; every other committed write keeps it,
\* also one that started from a stale cached record.
C8_DecommissioningKept ==
    [][\A t \in active :
          (Writes(t) /\ th[t].op # "SetDecommissioning"
                     /\ store[th[t].target] # Empty)
              => store'[th[t].target].decommissioning
                     = store[th[t].target].decommissioning]_vars

\* a write other than SetDecommissioning has replaced a decommissioning record
C8_Witness ==
    \E t \in active :
        /\ th[t].op \in {"Heartbeat", "IncrementEpoch", "SetDraining"}
        /\ th[t].pc = "resp"
        /\ th[t].outcome = "ok"
        /\ th[t].liveness # Empty
        /\ store[th[t].target] = th[t].update
        /\ store[th[t].target].decommissioning

\* C9: when a Heartbeat's conditional put fails on its condition, or the
\* cache pre-check finds a mismatch, nothing is written and the actual record
\* is offered to the cache; the call succeeds (successes + 1) iff the actual
\* record is live and increment_epoch is false, and fails with
\* epoch-incremented (failures + 1) otherwise.
C9_HeartbeatConditionFailed ==
    [][\A t \in active :
          /\ (Puts(t) /\ th[t].op = "Heartbeat" /\ th'[t].outcome = "condfailed")
                 => store' = store
          /\ (/\ th[t].pc = "resp"
              /\ th[t].op = "Heartbeat"
              /\ th[t].outcome = "condfailed"
              /\ th'[t] # th[t])
                 => /\ store' = store
                    /\ cache' = [cache EXCEPT ![Home(t)] =
                                    maybeUpdate(@, th[t].actual)]
                    /\ IF IsLive(th[t].actual, clock[Home(t)]) /\ ~th[t].incr
                       THEN /\ th'[t].result = "ok"
                            /\ metrics'[Home(t)].succ = metrics[Home(t)].succ + 1
                            /\ metrics'[Home(t)].fail = metrics[Home(t)].fail
                       ELSE /\ th'[t].result = "epoch_incremented"
                            /\ metrics'[Home(t)].fail = metrics[Home(t)].fail + 1
                            /\ metrics'[Home(t)].succ = metrics[Home(t)].succ]_vars

\* a heartbeat without increment_epoch has failed with epoch-incremented
\* after a peer took the epoch
C9_Witness ==
    \E t \in active \cap LoopThreads :
        /\ th[t].pc = "call"
        /\ th[t].result = "epoch_incremented"
        /\ ~incrementEpoch[Home(t)]
        /\ metrics[Home(t)].fail >= 1
        /\ cache[Home(t)][Home(t)].epoch >= 2

\* the Heartbeat of thread t has an expected record and no increment_epoch,
\* and its conditional put has committed
HeartbeatCommitted(t) ==
    /\ th[t].pc = "resp"
    /\ th[t].op = "Heartbeat"
    /\ th[t].outcome = "ok"
    /\ th[t].liveness # Empty
    /\ ~th[t].incr

\* the Heartbeat of thread t has an expected record and no increment_epoch
PlainHeartbeat(t) ==
    th[t].op = "Heartbeat" /\ th[t].liveness # Empty /\ ~th[t].incr

\* what C10 says of the stored record: the proposed expiration is the clock
\* plus threshold plus offset, it is not earlier than the expected one, and
\* the committed record is the expected record with only that expiration changed
StoresExpected(t) ==
    /\ (th[t].pc = "gate" /\ PlainHeartbeat(t) /\ th'[t].pc = "sync")
           => /\ th'[t].update.expiration
                     = clock[Home(t)] + LivenessThreshold + MaxOffset
              /\ th'[t].update.expiration >= th[t].liveness.expiration
    /\ (Puts(t) /\ PlainHeartbeat(t) /\ th'[t].outcome = "ok")
           => /\ store'[Home(t)] = th[t].update
              /\ th[t].update =
                     [th[t].liveness EXCEPT !.expiration = th[t].update.expiration]

HeartbeatReturnsWritten(t) ==
    /\ th[t].pc = "resp"
    /\ th[t].op = "Heartbeat"
    /\ th[t].outcome = "ok"
    /\ th'[t] # th[t]

\* the cache of the caller holds u after the step, or keeps a record of a
\* greater epoch, or of the same epoch and a later expiration, that it held
HoldsWrittenOrNewer(t, u) ==
    LET c == cache[Home(t)][u.node_id] IN
        \/ cache'[Home(t)][u.node_id] = u
        \/ /\ cache'[Home(t)][u.node_id] = c
           /\ \/ c.epoch > u.epoch
              \/ c.epoch = u.epoch /\ c.expiration > u.expiration

\* what C11 says of the stored record and of the counter: a Heartbeat without
\* an expected record proposes {self, 1, clock + threshold + offset, false,
\* false}, its committed put stores that record, and it counts one success
CreatesRecord(t) ==
    /\ (th[t].pc = "gate" /\ th[t].op = "Heartbeat" /\ th[t].liveness = Empty
            /\ th'[t].pc = "sync")
           => th'[t].update =
                  [node_id |-> Home(t), epoch |-> 1,
                   expiration |-> clock[Home(t)] + LivenessThreshold + MaxOffset,
                   draining |-> FALSE, decommissioning |-> FALSE]
    /\ (Puts(t) /\ th[t].op = "Heartbeat" /\ th[t].liveness = Empty
            /\ store[Home(t)] = Empty /\ th'[t].outcome = "ok")
           => store'[Home(t)] = th[t].update
    /\ (HeartbeatReturnsWritten(t) /\ th[t].liveness = Empty)
           => /\ metrics'[Home(t)].succ = metrics[Home(t)].succ + 1
              /\ metrics'[Home(t)].fail = metrics[Home(t)].fail
              /\ th'[t].result = "ok"

C12_ExpirationRegress ==
    [][\A t \in active :
          (/\ th[t].pc = "gate"
           /\ th[t].op = "Heartbeat"
           /\ th[t].liveness # Empty
           /\ clock[Home(t)] + LivenessThreshold + MaxOffset
                  < th[t].liveness.expiration
           /\ th'[t] # th[t])
              => /\ th'[t].result = "expiration_regress"
                 /\ th'[t].pc \in {"idle", "putToken"}
                 /\ store' = store
                 /\ gossiped' = gossiped
                 /\ cache' = cache
                 /\ ~selfSem'[Home(t)]]_vars

\* a heartbeat has failed with the expiration-regress error on a record that
\* expires later than the restarted clock allows
C12_Witness ==
    \E t \in active :
        /\ th[t].result = "expiration_regress"
        /\ store[1] = AheadRecord(1)
        /\ cache[1][1] = AheadRecord(1)
        /\ ~selfSem[1]

\* thread t returns from an IncrementEpoch whose conditional put has committed
IncrementReturnsWritten(t) ==
    /\ th[t].pc = "resp"
    /\ th[t].op = "IncrementEpoch"
    /\ th[t].outcome = "ok"
    /\ th'[t] # th[t]

\* what C13 says of the stored record and of the counter: IncrementEpoch(L)
\* proposes L with epoch + 1 and nothing else changed, its committed put
\* replaces L by that record, and epochincrements grows by one
IncrementsStored(t) ==
    /\ (th[t].pc = "gate" /\ th[t].op = "IncrementEpoch" /\ th'[t].pc = "sync")
           => /\ ~IsLive(th[t].liveness, clock[Home(t)])
              /\ th'[t].update =
                     [node_id |-> th[t].liveness.node_id,
                      epoch |-> th[t].liveness.epoch + 1,
                      expiration |-> th[t].liveness.expiration,
                      draining |-> th[t].liveness.draining,
                      decommissioning |-> th[t].liveness.decommissioning]
    /\ (Puts(t) /\ th[t].op = "IncrementEpoch" /\ th'[t].outcome = "ok")
           => /\ store[th[t].target] = th[t].liveness
              /\ store'[th[t].target] = th[t].update
    /\ IncrementReturnsWritten(t)
           => /\ th'[t].result = "ok"
              /\ metrics'[Home(t)].epochinc = metrics[Home(t)].epochinc + 1

C14_IncrementConditionFailed ==
    [][\A t \in active :
          /\ (Puts(t) /\ th[t].op = "IncrementEpoch"
                      /\ th'[t].outcome = "condfailed")
                 => /\ store' = store
                    /\ metrics' = metrics
                    /\ th'[t].actual # th[t].liveness
          /\ (/\ th[t].pc = "resp"
              /\ th[t].op = "IncrementEpoch"
              /\ th[t].outcome = "condfailed"
              /\ th'[t] # th[t])
                 => /\ store' = store
                    /\ metrics' = metrics
                    /\ cache' = [cache EXCEPT ![Home(t)] =
                                    maybeUpdate(@, th[t].actual)]
                    /\ th'[t].result =
                           (IF th[t].actual.epoch > th[t].liveness.epoch
                            THEN "ok"
                            ELSE IF th[t].actual.epoch < th[t].liveness.epoch
                            THEN "unexpected_epoch"
                            ELSE "mismatch")]_vars

\* an IncrementEpoch has returned success without a write of its own: the
\* epoch had already been incremented
C14_Witness ==
    \E t \in active \cap IncThreads :
        /\ th[t].pc = "idle"
        /\ th[t].result = "ok"
        /\ metrics[Home(t)].epochinc = 0
        /\ store[1].epoch >= 2
        /\ cache[Home(t)][1].epoch >= 2

\* C15: a successful Heartbeat with increment_epoch set and an expected record
\* E stores epoch = E.epoch + 1 with draining = false and E's decommissioning
\* flag; with increment_epoch set and no expected record it creates a record
\* of epoch 1.
C15_IncrementingHeartbeat ==
    [][\A t \in active :
          (Puts(t) /\ th[t].op = "Heartbeat" /\ th[t].incr
                   /\ th'[t].outcome = "ok")
              => IF th[t].liveness = Empty
                 THEN /\ store[Home(t)] = Empty
                      /\ store'[Home(t)].epoch = 1
                 ELSE /\ store[Home(t)] = th[t].liveness
                      /\ store'[Home(t)].epoch = th[t].liveness.epoch + 1
                      /\ ~store'[Home(t)].draining
                      /\ store'[Home(t)].decommissioning
                             = th[t].liveness.decommissioning
                      /\ store'[Home(t)].node_id = th[t].liveness.node_id]_vars

\* the first heartbeat of the loop has replaced a draining record by a record
\* of the next epoch that is not draining
C15_Witness ==
    \E t \in active \cap LoopThreads :
        /\ th[t].pc = "resp"
        /\ th[t].outcome = "ok"
        /\ th[t].incr
        /\ th[t].liveness.draining
        /\ store[Home(t)] = th[t].update
        /\ store[Home(t)].epoch = th[t].liveness.epoch + 1
        /\ ~store[Home(t)].draining

C17_DrainingKept ==
    [][\A t \in active :
          Writes(t)
              => LET old == store[th[t].target]
                     new == store'[th[t].target]
                 IN  /\ (old.draining /\ ~new.draining)
                            => \/ th[t].op = "SetDraining" /\ ~th[t].arg
                               \/ th[t].op = "Heartbeat" /\ th[t].incr
                     /\ (th[t].op = "Heartbeat" /\ ~th[t].incr /\ old # Empty)
                            => /\ new.draining = old.draining
                               /\ new.expiration >= old.expiration
                     /\ (th[t].op = "IncrementEpoch")
                            => new.draining = old.draining]_vars

\* a heartbeat of the loop has refreshed the expiration of a draining record
\* whose epoch a peer had incremented, and the record is still draining
C17_Witness ==
    \E t \in active \cap LoopThreads :
        /\ th[t].pc = "resp"
        /\ th[t].outcome = "ok"
        /\ ~th[t].incr
        /\ th[t].liveness.draining
        /\ th[t].liveness.epoch >= 2
        /\ store[Home(t)] = th[t].update
        /\ store[Home(t)].draining
        /\ store[Home(t)].expiration > th[t].liveness.expiration
        /\ \E u \in active \cap IncThreads : metrics[Home(u)].epochinc >= 1

\* thread t returns from SetDecommissioning to its caller
DecommissioningReturns(t) ==
    /\ th[t].pc = "resp"
    /\ th[t].op = "SetDecommissioning"
    /\ th'[t].pc = "idle"

\* C18: SetDecommissioning returns changed = true if and only if its own
\* conditional put committed and the decommissioning flag of the record it
\* read from the store differed from the requested value; a committed write of
\* an unchanged flag, and a condition failure whose actual record already
\* carries the requested flag, both return changed = false with no error.
C18_ChangedIffCommitted ==
    [][\A t \in active \cap DecThreads :
          DecommissioningReturns(t)
              => /\ th'[t].changed
                        <=> (th[t].wrote
                               /\ th[t].liveness.decommissioning # th[t].arg)
                 /\ (th[t].outcome = "condfailed"
                        /\ th[t].actual.decommissioning = th[t].arg)
                        => th'[t].result = "ok"]_vars

\* C19: SetDecommissioning(n, d) for a node n with no record in the store
\* returns (false, no_liveness_record) without writing: no record is created,
\* the caller's cache is unchanged and the gate is released; the record is
\* read from the store, not from the cache, so a record present in the store
\* is decommissioned whatever the caller's cache holds.
C19_ReadsTheStore ==
    [][\A t \in active \cap DecThreads :
          (th[t].pc = "read" /\ th'[t] # th[t] /\ th'[t].result # "error")
              => IF store[th[t].target] = Empty
                 THEN /\ th'[t].pc = "idle"
                      /\ th'[t].result = "no_liveness_record"
                      /\ ~th'[t].changed
                      /\ store' = store
                      /\ gossiped' = gossiped
                      /\ cache' = cache
                      /\ ~SemTaken(Home(t), th[t].target)'
                 ELSE /\ th'[t].pc = "sync"
                      /\ th'[t].liveness = store[th[t].target]
                      /\ th'[t].update =
                             [store[th[t].target] EXCEPT
                                 !.decommissioning = th[t].arg]]_vars

\* SetDecommissioning has returned no_liveness_record on a store without a
\* record of node 1
C19_Witness ==
    \E t \in active \cap DecThreads :
        /\ th[t].pc = "idle"
        /\ th[t].result = "no_liveness_record"
        /\ store[1] = Empty
        /\ cache[Home(t)][1] = Empty
        /\ ~SemTaken(Home(t), 1)

\* the dominance rule as C20 words it
Dominates(held, candidate) ==
    \/ held = Empty
    \/ candidate.epoch > held.epoch
    \/ /\ candidate.epoch = held.epoch
       /\ candidate.expiration > held.expiration
    \/ /\ candidate.epoch = held.epoch
       /\ candidate.expiration = held.expiration
       /\ \/ candidate.draining # held.draining
          \/ candidate.decommissioning # held.decommissioning

\* C20: offered a candidate record, the cache replaces the record held for
\* that node if and only if no record is held, or the candidate's epoch is
\* greater, or the epochs are equal and the candidate's expiration is greater,
\* or epoch and expiration are equal and the draining or decommissioning flag
\* differs; otherwise the cache is unchanged, and the entries of other nodes
\* are never touched.
C20_DominanceRule ==
    \A m \in Nodes : \A n \in Nodes : \A l \in gossiped[n] :
        maybeUpdate(cache[m], l) =
            IF Dominates(cache[m][n], l)
            THEN [k \in NodeIDs |-> IF k = n THEN l ELSE cache[m][k]]
            ELSE cache[m]

\* a cache holds a record of node 1 and is offered a record of a lower epoch,
\* which it refuses, and a record of the same epoch and expiration with a
\* different flag, which it accepts
C20_Witness ==
    \E m \in Nodes : \E a, b \in gossiped[1] :
        /\ cache[m][1] # Empty
        /\ a.epoch < cache[m][1].epoch
        /\ maybeUpdate(cache[m], a) = cache[m]
        /\ b.epoch = cache[m][1].epoch
        /\ b.expiration = cache[m][1].expiration
        /\ b # cache[m][1]
        /\ maybeUpdate(cache[m], b)[1] = b

\* C21: the cache offers a monotone view: once a cache has accepted a record
\* for a node it never afterwards installs a strictly older record for that
\* node, one the store held before the accepted record.  Every record offered
\* to a cache has been in the store, so a cache that holds the record the
\* store holds now, the newest there is, keeps it until the store moves on.
C21_CacheMonotone ==
    [][\A m \in Nodes : \A n \in Nodes :
          (cache[m][n] # Empty /\ cache[m][n] = store[n])
              => cache'[m][n] = cache[m][n]]_vars

\* the cached record of n at node m has not expired at the clock of m, with
\* the margin of the maximum clock offset
NotExpired(m, n) == clock[m] + MaxOffset < cache[m][n].expiration

\* C22: a node is reported live at clock reading t, by IsLive, GetIsLiveMap,
\* AsLiveClock and the count of live nodes, only if t + max_offset is less
\* than the expiration of its cached record; a record with
\* t + max_offset >= expiration is never reported live.
C22_ReportedLiveOnlyBeforeExpiration ==
    \A m \in Nodes :
        /\ \A n \in Nodes :
              /\ NodeIsLive(m, n).live => NotExpired(m, n)
              /\ (n \in DOMAIN GetIsLiveMap(m) /\ GetIsLiveMap(m)[n].IsLive)
                     => NotExpired(m, n)
              /\ AsLiveClock(m, n).err = "none"
                     => (NotExpired(m, n) /\ AsLiveClock(m, n).ts = clock[m])
        /\ numLiveNodes(m) <= Cardinality({n \in Nodes : NotExpired(m, n)})

\* node 1 is reported live by its own cache through the four queries, while
\* node 2 holds a record of node 1 that has expired at its clock and reports
\* it not live
C22_Witness ==
    /\ NodeIsLive(1, 1).live
    /\ GetIsLiveMap(1)[1].IsLive
    /\ AsLiveClock(1, 1).err = "none"
    /\ numLiveNodes(1) = 1
    /\ cache[2][1] # Empty
    /\ ~NotExpired(2, 1)
    /\ ~NodeIsLive(2, 1).live
    /\ ~GetIsLiveMap(2)[1].IsLive
    /\ AsLiveClock(2, 1).err = "not_live"
    /\ numLiveNodes(2) = 0

\* callback cb is registered on node m
Registered(m, cb) == \E i \in 1..Len(callbacks[m]) : callbacks[m][i] = cb

C24_LoopIncrementsUntilSuccess ==
    [][\A t \in active \cap LoopThreads :
          LET m == Home(t) IN
          /\ (th[t].pc = "call" /\ th'[t].pc = "gate")
                => /\ th'[t].incr = (metrics[m].succ = 0)
                   /\ th'[t].liveness = cache[m][m]
                   /\ heartbeatToken[m] = 0
          /\ (th[t].pc \in {"gate", "resp"} /\ th'[t].pc \notin {"gate", "resp", "sync"})
                => /\ th'[t].result = "epoch_incremented"
                       => (th'[t].pc = "call" /\ heartbeatToken'[m] = 0)
                   /\ th'[t].result # "epoch_incremented"
                       => th'[t].pc = "putToken"
          /\ (th[t].pc = "putToken" /\ th'[t].pc # "putToken")
                => (th'[t].pc = "token" /\ heartbeatToken'[m] = 1)
          /\ (th[t].pc = "token" /\ th'[t].pc # "token")
                => (th'[t].pc = "call" /\ heartbeatToken'[m] = 0)]_vars

\* the loop of node 1 starts another attempt with increment_epoch = true and
\* the record it has just cached, after an attempt that failed with
\* epoch_incremented (no failure was injected), in the same iteration
C24_Witness ==
    /\ "loop1" \in active
    /\ th["loop1"].pc = "gate"
    /\ th["loop1"].incr
    /\ th["loop1"].liveness # Empty
    /\ metrics[1].fail = 1
    /\ metrics[1].succ = 0
    /\ faultsLeft = MaxFaults
    /\ heartbeatToken[1] = 0

\* C25: in every mutation each conditional-put attempt, including each retry
\* after an ambiguous or transaction-status error, is preceded by a synced
\* no-op write to every local engine; if the write or sync fails, the
\* mutation returns an error without issuing the conditional put, and the
\* failure and the return leave the stored record and the cache unchanged.
C25_SyncBeforeEveryAttempt ==
    [][\A t \in active :
          /\ (th[t].pc # "cput" /\ th'[t].pc = "cput")
                => (th[t].pc = "sync" /\ faultsLeft' = faultsLeft)
          /\ Puts(t) => th'[t].pc \in {"sync", "resp"}
          /\ (th[t].pc = "sync" /\ th'[t].pc # "sync" /\ faultsLeft' # faultsLeft)
                => /\ th'[t].pc = "resp"
                   /\ th'[t].outcome = "error"
                   /\ UNCHANGED <<store, gossiped, cache>>
          /\ (th[t].pc = "resp" /\ th[t].outcome = "error" /\ th'[t] # th[t])
                => /\ th'[t].result = "error"
                   /\ th'[t].pc \notin {"sync", "cput"}
                   /\ UNCHANGED <<store, gossiped, cache>>]_vars

\* SetDraining is about to repeat its conditional put: the first one was
\* answered with an ambiguous result, although it had committed, and the
\* engines were synced again
C25_Witness ==
    /\ "drain1" \in active
    /\ th["drain1"].pc = "cput"
    /\ th["drain1"].wrote
    /\ faultsLeft = 0

\* the engines of node n have been stalled since its clock read s
StalledSince(n, s) == stalledSince[n] # NoStall /\ stalledSince[n] = s

\* while node n is stalled since s, its stored record expires at
\* s + liveness_threshold + max_offset at the latest, and a peer whose clock
\* has reached that bound evaluates the record it holds of n as not live
StallFences(n) ==
    \A s \in 0..MaxStallTime :
        StalledSince(n, s) =>
            /\ store[n].expiration <= s + LivenessThreshold + MaxOffset
            /\ \A m \in Nodes \ {n} :
                  (cache[m][n] # Empty /\ clock[m] >= s + LivenessThreshold + MaxOffset)
                      => ~NodeIsLive(m, n).live

\* C26 as stated: if from some time s on the engine commit of node n never
\* completes, then n commits no conditional put on its own record after s,
\* the stored expiration of n's record stays at most
\* s + liveness_threshold + max_offset, and every peer holding that record
\* evaluates n as not live once its clock reaches that bound.
C26_NoPutAfterStall ==
    [][/\ \A t \in active :
             (Home(t) = 1 /\ th[t].target = 1 /\ Writes(t))
                 => stalledSince[1] = NoStall
       /\ StallFences(1)']_vars

\* C26, amended: if from some time s on the engine commit of node n never
\* completes, then no conditional-put attempt of n passes its engine sync
\* after s, so that n commits at most the puts that had been synced before s;
\* the stored expiration of n's record stays at most
\* s + liveness_threshold + max_offset, and every peer holding that record
\* evaluates n as not live once its clock reaches that bound.
C26_NoSyncAfterStall ==
    [][/\ \A t \in active :
             (Home(t) = 1 /\ th[t].pc = "sync" /\ th'[t].pc = "cput")
                 => stalledSince[1] = NoStall
       /\ StallFences(1)']_vars

\* the heartbeat of node 1 is blocked in its engine sync, and node 2, whose
\* clock has reached the bound, holds a record of node 1 and finds it not live
C26_Witness ==
    /\ stalledSince[1] # NoStall
    /\ th["loop1"].pc = "sync"
    /\ store[1].expiration = stalledSince[1] + LivenessThreshold + MaxOffset
    /\ cache[2][1] = store[1]
    /\ clock[2] >= stalledSince[1] + LivenessThreshold + MaxOffset
    /\ ~NodeIsLive(2, 1).live

\* the call thread t is executing: the operation, its target and its records
CallOf(t) == <<th[t].op, th[t].target, th[t].liveness, th[t].update,
               th[t].incr, th[t].arg>>

\* C27: a conditional put that ends with an ambiguous-result or
\* transaction-status error is re-attempted by the same mutation, after the
\* check of the context, until it yields another outcome, and is never
\* returned to a caller; a condition failure is never retried inside
\* updateLiveness but is handed once, with the actual stored record, to the
\* condition-failure handler of the operation, which returns.
C27_RetryOnlyOnAmbiguousResult ==
    [][\A t \in active :
          /\ Puts(t) =>
                \/ /\ th'[t].pc = "sync"
                   /\ faultsLeft' = faultsLeft - 1
                   /\ CallOf(t)' = CallOf(t)
                \/ /\ th'[t].pc = "resp"
                   /\ th'[t].outcome \in {"ok", "error"}
                \/ /\ th'[t].pc = "resp"
                   /\ th'[t].outcome = "condfailed"
                   /\ store' = store
                   /\ faultsLeft' = faultsLeft
                   /\ ~CacheCheckFails(t) => th'[t].actual = store[th[t].target]
          /\ (th[t].pc = "resp" /\ th'[t] # th[t])
                => th'[t].pc \notin {"sync", "cput", "resp"}]_vars

\* the first conditional put of SetDraining committed but was answered with
\* an ambiguous result; the second attempt failed its condition, and the
\* handler is about to receive the stored record, which is the one written
C27_Witness ==
    /\ "drain1" \in active
    /\ th["drain1"].pc = "resp"
    /\ th["drain1"].wrote
    /\ th["drain1"].outcome = "condfailed"
    /\ th["drain1"].actual = store[1]
    /\ th["drain1"].actual = th["drain1"].update

\* thread t takes the step of its conditional put, the put commits and the
\* call is answered with success
CommitsAnswered(t) ==
    /\ th[t].pc = "cput"
    /\ ~CacheCheckFails(t)
    /\ store[th[t].target] = th[t].liveness
    /\ store'[th[t].target] = th[t].update
    /\ th'[t].pc = "resp"
    /\ th'[t].outcome = "ok"

\* C28: the heartbeat callback fires only on an actually committed
\* conditional put: it is not invoked when a Heartbeat succeeds through the
\* benign node_already_live path, when the cache pre-check short-circuits the
\* write, or when the mutation fails.
C28_CallbackOnlyOnCommit ==
    [][\A m \in Nodes :
          alive'[m] # alive[m]
              => /\ alive'[m] = alive[m] + 1
                 /\ \E t \in active : Home(t) = m /\ CommitsAnswered(t)]_vars

\* a Heartbeat of node 1 has returned success through the node_already_live
\* path: the store still holds the record it found, and the heartbeat
\* callback of node 1 has not been invoked
C28_Witness ==
    /\ "hb1" \in active
    /\ th["hb1"].pc = "idle"
    /\ th["hb1"].op = "Heartbeat"
    /\ th["hb1"].result = "ok"
    /\ store[1] = OldRecord(1)
    /\ metrics[1].succ = 1
    /\ heartbeatCallback[1]
    /\ alive[1] = 0

\* thread t commits a heartbeat of its own node and is answered with success
HeartbeatWrite(t) ==
    /\ th[t].op = "Heartbeat"
    /\ th[t].target = Home(t)
    /\ CommitsAnswered(t)

\* C29: the heartbeat callback is invoked once after each successful
\* self-heartbeat write and only then: every invocation corresponds to a
\* committed update of the local node's own record by Heartbeat, and a
\* committed IncrementEpoch or SetDecommissioning on another node's record
\* does not invoke it.
C29_CallbackOnlyOnHeartbeat ==
    [][\A m \in Nodes :
          /\ (\E t \in active : Home(t) = m /\ HeartbeatWrite(t))
                => alive'[m] = alive[m] + 1
          /\ alive'[m] # alive[m]
                => \E t \in active : Home(t) = m /\ HeartbeatWrite(t)]_vars

\* the Heartbeat call of thread t returns in this step
HeartbeatReturns(t) ==
    /\ th[t].op = "Heartbeat"
    /\ th[t].pc \in {"gate", "resp"}
    /\ th'[t].pc \notin {"gate", "resp", "sync"}

\* C30: all heartbeat failures increment heartbeatfailures: every Heartbeat
\* call that returns an error (epoch_incremented, expiration regress, disk or
\* KV error, context cancellation) increments the heartbeatfailures counter by
\* exactly one and leaves heartbeatsuccesses unchanged.
C30_EveryFailureCounted ==
    [][\A t \in active :
          (HeartbeatReturns(t) /\ th'[t].result # "ok")
              => /\ metrics'[Home(t)].fail = metrics[Home(t)].fail + 1
                 /\ metrics'[Home(t)].succ = metrics[Home(t)].succ]_vars
\* thread t returns from its call to the caller
ReturnsToCaller(t) == th[t].pc # "idle" /\ th'[t].pc = "idle" /\ th'[t].result # "none"

\* the errors the claim lets escape; "error" stands for the context error
StructuralErrors == {"no_liveness_record", "expiration_regress",
                     "cannot_increment_live", "error"}

\* C31 (as stated): a call of Heartbeat, IncrementEpoch or SetDecommissioning
\* returns nil, no_liveness_record, expiration_regress, cannot_increment_live
\* or the context error, and nothing else.
C31_OnlyStructuralErrorsEscape ==
    [][\A t \in active \cap (HbThreads \cup IncThreads \cup DecThreads) :
          ReturnsToCaller(t) => th'[t].result \in StructuralErrors \cup {"ok"}]_vars

\* C31 (amended): besides those, Heartbeat returns epoch_incremented and
\* IncrementEpoch returns its mismatch errors to the caller, and a disk or KV
\* error is returned by all three.  node_already_live and
\* epoch_already_incremented are turned into nil, change_decommissioning_failed
\* restarts the attempt inside SetDecommissioning, and an ambiguous result
\* restarts the attempt inside updateLiveness.
C31_EscapingErrors ==
    [][\A t \in active \cap (HbThreads \cup IncThreads \cup DecThreads) :
          /\ ReturnsToCaller(t) =>
                th'[t].result \in StructuralErrors \cup {"ok"} \cup
                    (CASE th[t].op = "Heartbeat" -> {"epoch_incremented"}
                       [] th[t].op = "IncrementEpoch" -> {"unexpected_epoch", "mismatch"}
                       [] OTHER -> {})
          /\ (/\ th[t].pc = "resp" /\ th'[t] # th[t]
              /\ th[t].outcome = "condfailed") =>
                CASE th[t].op = "Heartbeat" ->
                        (IsLive(th[t].actual, clock[Home(t)]) /\ ~th[t].incr)
                            => (th'[t].pc = "idle" /\ th'[t].result = "ok")
                  [] th[t].op = "IncrementEpoch" ->
                        (th[t].actual.epoch > th[t].liveness.epoch)
                            => (th'[t].pc = "idle" /\ th'[t].result = "ok")
                  [] th[t].op = "SetDecommissioning" ->
                        IF th[t].actual.decommissioning = th[t].arg
                        THEN th'[t].pc = "idle" /\ th'[t].result = "ok"
                        ELSE th'[t].pc = "gate"
                  [] OTHER -> TRUE
          /\ (Puts(t) /\ faultsLeft' < faultsLeft /\ th'[t].outcome # "error")
                => th'[t].pc = "sync"]_vars

\* a Heartbeat has returned epoch_incremented to its caller after an
\* IncrementEpoch that found the epoch already incremented returned nil
C31_Witness ==
    /\ th["hb1"].pc = "idle"
    /\ th["hb1"].result = "epoch_incremented"
    /\ \E t \in active \cap IncThreads :
           /\ th[t].pc = "idle"
           /\ th[t].result = "ok"
           /\ metrics[Home(t)].epochinc = 0

\* the nodes of which node m holds a record
Cached(m) == {n \in Nodes : cache[m][n] # Empty}

\* the record of n that m holds is not live and decommissioning
Removed(m, n) == /\ n \in Cached(m)
                 /\ ~IsLive(cache[m][n], clock[m])
                 /\ cache[m][n].decommissioning

\* C32: GetIsLiveMap returns exactly the cached nodes that are not both
\* not-live and decommissioning, each with its cached epoch and its liveness
\* at the call's clock reading; GetLivenessStatusMap has an entry for every
\* cached node, the removed ones included; neither query changes the cache.
C32_LiveMapOmitsRemoved ==
    [][\A t \in active \cap QueryThreads :
          LET m == Home(t)
              map == th'[t].answer
          IN  (th'[t] # th[t]) =>
                /\ cache' = cache
                /\ th'[t].op = "GetIsLiveMap" =>
                      /\ DOMAIN map = {n \in Cached(m) : ~Removed(m, n)}
                      /\ \A n \in DOMAIN map :
                            /\ map[n].Epoch = cache[m][n].epoch
                            /\ map[n].IsLive = (clock[m] + MaxOffset < cache[m][n].expiration)
                /\ th'[t].op = "GetLivenessStatusMap" =>
                      /\ DOMAIN map = Cached(m)
                      /\ \A n \in Nodes :
                            Removed(m, n) => n \notin DOMAIN GetIsLiveMap(m)]_vars

\* node 2 asked for the live map while it held a record of node 1 that was
\* expired and decommissioning
C32_Witness ==
    /\ th["query2"].op = "GetIsLiveMap"
    /\ Removed(2, 1)
    /\ 1 \notin DOMAIN th["query2"].answer
    /\ 2 \in DOMAIN th["query2"].answer

\* the cache of t's node holds a record of t's target that is not the record
\* t expects, or holds one while t expects none
CacheDisagrees(t) ==
    /\ cache[Home(t)][th[t].target] # Empty
    /\ \/ th[t].liveness = Empty
       \/ cache[Home(t)][th[t].target] # th[t].liveness

\* C33: an attempt of Heartbeat or IncrementEpoch that finds the cache in
\* disagreement with the expected record takes the condition-failure path
\* with the cached record as actual value and issues no conditional put; an
\* attempt of SetDraining or SetDecommissioning issues the conditional put
\* against the expected record whatever the cache holds.
C33_CachePreCheck ==
    [][\A t \in active :
          Puts(t) =>
            IF th[t].op \in {"Heartbeat", "IncrementEpoch"}
            THEN CacheDisagrees(t) =>
                    /\ th'[t].pc = "resp"
                    /\ th'[t].outcome = "condfailed"
                    /\ th'[t].actual = cache[Home(t)][th[t].target]
                    /\ store' = store
                    /\ faultsLeft' = faultsLeft
            ELSE /\ th[t].op \in {"SetDraining", "SetDecommissioning"}
                 /\ store' # store =>
                       /\ store[th[t].target] = th[t].liveness
                       /\ store'[th[t].target] = th[t].update
                 /\ th'[t].outcome = "ok" =>
                       /\ store[th[t].target] = th[t].liveness
                       /\ store'[th[t].target] = th[t].update
                 /\ th'[t].outcome = "condfailed" =>
                       /\ store[th[t].target] # th[t].liveness
                       /\ th'[t].actual = store[th[t].target]
                       /\ store' = store]_vars

\* a Heartbeat or IncrementEpoch was answered from the cache with a record
\* that is not the stored one, while the put of a SetDraining or
\* SetDecommissioning has committed although the cache does not hold the
\* record it expected
C33_Witness ==
    /\ \E t \in active \cap (LoopThreads \cup IncThreads) :
           /\ th[t].pc = "resp"
           /\ th[t].outcome = "condfailed"
           /\ th[t].actual = cache[Home(t)][th[t].target]
           /\ th[t].actual # store[th[t].target]
    /\ \E t \in active \cap (DecThreads \cup DrainThreads) :
           /\ th[t].pc = "resp"
           /\ th[t].outcome = "ok"
           /\ th[t].liveness # cache[Home(t)][th[t].target]

\* the loop of node m completes its first successful heartbeat
FirstSuccess(m) ==
    /\ th[LoopOf(m)].pc = "resp"
    /\ incrementEpoch[m]
    /\ ~incrementEpoch'[m]

\* C34: the first heartbeat the loop of a node completes successfully has
\* stored an epoch greater than the epoch the record of the node had in the
\* store when the loop started, whether or not that record had reached the
\* cache; it stores epoch 1 only when no record existed.
C34_FirstSuccessIncrementsEpoch ==
    [][\A m \in Nodes :
          (LoopOf(m) \in active /\ FirstSuccess(m)) =>
              LET t == LoopOf(m) IN
                  /\ th'[t].result = "ok"
                  /\ th[t].outcome = "ok"
                  /\ th[t].update \in gossiped[m]
                  /\ th[t].update.epoch > startEpoch[m]
                  /\ store[m].epoch > startEpoch[m]
                  /\ th[t].update.epoch = 1 => startEpoch[m] = 0]_vars

\* the loop of node 1 started on a stored record that had not reached its
\* cache: its first heartbeat failed, and its first success has stored a
\* greater epoch
C34_Witness ==
    /\ startEpoch[1] = 1
    /\ ~incrementEpoch[1]
    /\ metrics[1].fail >= 1
    /\ metrics[1].succ = 1
    /\ th["loop1"].pc = "putToken"
    /\ store[1].epoch = 2
    /\ cache[1][1] = store[1]

\* (epoch, expiration) of a is not greater than that of b
NotAhead(a, b) ==
    \/ a.epoch < b.epoch
    \/ a.epoch = b.epoch /\ a.expiration <= b.expiration

\* C35: every cached record of a node was at some time the stored record of
\* that node, and its (epoch, expiration) is not greater than that of the
\* record stored now.
C35_CacheNeverAhead ==
    \A m \in Nodes : \A n \in Nodes :
        cache[m][n] # Empty =>
            /\ cache[m][n] \in gossiped[n]
            /\ NotAhead(cache[m][n], store[n])

\* after three writes of the record of node 1 one cache holds the stored
\* record and the other an earlier one
C35_Witness ==
    /\ Cardinality(gossiped[1]) >= 3
    /\ cache[1][1] # Empty
    /\ cache[2][1] # Empty
    /\ \E m \in Nodes : cache[m][1] = store[1]
    /\ \E m \in Nodes : cache[m][1] # store[1]

\* the gate of node m for records of node m (self) or of other nodes is
\* taken exactly while one operation holds it
GatesMatchHolders ==
    \A m \in Nodes :
        /\ selfSem[m] <=> \E t \in active :
               Home(t) = m /\ HoldsGate(t) /\ th[t].target = m
        /\ otherSem[m] <=> \E t \in active :
               Home(t) = m /\ HoldsGate(t) /\ th[t].target # m

\* thread t leaves the select on the gate without having passed it
LeavesGate(t) ==
    /\ th[t].pc = "gate"
    /\ th'[t].pc \in {"idle", "retry", "putToken", "call"}
    /\ th'[t].result = "error"

\* C36: every attempt releases the gate it acquired on every exit path; a
\* call whose context is done while it waits for the gate returns the
\* context error without acquiring the gate and without writing; so the
\* gates are taken only while a mutation executes, and no mutation waits
\* forever on a gate.
C36_GatesReleased ==
    /\ []GatesMatchHolders
    /\ [][\A t \in active :
             LeavesGate(t) => /\ selfSem' = selfSem
                              /\ otherSem' = otherSem
                              /\ store' = store
                              /\ cache' = cache]_vars
    /\ \A t \in {"loop1", "drain1", "inc2", "dec2"} :
           (th[t].pc = "gate") ~> (th[t].pc # "gate")

\* the context of the loop's heartbeat was done while it waited for the gate
\* that SetDraining holds: the heartbeat has returned the error, counted
\* nowhere, and SetDraining still holds the gate
C36_Witness ==
    /\ th["loop1"].pc = "putToken"
    /\ th["loop1"].result = "error"
    /\ metrics[1].fail = 0
    /\ metrics[1].succ = 0
    /\ th["drain1"].pc = "cput"
    /\ selfSem[1]

\* the loop of node m holds the heartbeat token
LoopHoldsToken(m) ==
    /\ LoopOf(m) \in active
    /\ th[LoopOf(m)].pc \in {"call", "gate", "sync", "cput", "resp", "putToken"}

\* a PauseHeartbeat call of node m holds the heartbeat token: it has taken
\* it and not yet put it back
PauserHoldsToken(m) ==
    \/ /\ heartbeatPaused[m] = 1
       /\ \A t \in active \cap PauseThreads : Home(t) = m => th[t].pc # "pauseTake"
    \/ \E t \in active \cap PauseThreads : Home(t) = m /\ th[t].pc = "pausePut"

Tokens(m) == heartbeatToken[m] + (IF LoopHoldsToken(m) THEN 1 ELSE 0)
                               + (IF PauserHoldsToken(m) THEN 1 ELSE 0)

\* C37: the loop heartbeats only while it holds the token and puts it back
\* after every iteration; with PauseHeartbeat calls made one after another
\* exactly one token exists, in the channel, with the loop or with the
\* pauser; the loop's token return and PauseHeartbeat(false) never block;
\* a repeated PauseHeartbeat(true) or PauseHeartbeat(false) changes nothing.
C37_OneToken ==
    [][/\ Tokens(1)' = 1
       /\ \A t \in active \cap (LoopThreads \cup PauseThreads) :
             th'[t].pc \in {"putToken", "pausePut"} => heartbeatToken'[Home(t)] = 0
       /\ \A t \in active \cap LoopThreads :
             /\ (th[t].pc # "token" /\ th'[t].pc = "token") =>
                    /\ th[t].pc = "putToken"
                    /\ heartbeatToken'[Home(t)] = heartbeatToken[Home(t)] + 1
             /\ (th[t].pc \in {"resp", "gate"} /\ th'[t].pc \notin {"resp", "gate", "sync"}) =>
                    th'[t].pc \in {"putToken", "call"}
       /\ \A t \in active \cap PauseThreads :
             (/\ th[t].pc = "idle" /\ th'[t] # th[t]
              /\ heartbeatPaused[Home(t)] = (IF th'[t].arg THEN 1 ELSE 0)) =>
                    /\ th'[t].pc = "idle"
                    /\ heartbeatPaused' = heartbeatPaused
                    /\ heartbeatToken' = heartbeatToken]_vars

\* PauseHeartbeat(true) has returned and the pauser holds the token, after
\* the loop has ended an iteration whose heartbeat failed and one whose
\* heartbeat succeeded
C37_Witness ==
    /\ heartbeatPaused[1] = 1
    /\ heartbeatToken[1] = 0
    /\ th["loop1"].pc = "token"
    /\ metrics[1].fail >= 1
    /\ metrics[1].succ >= 1
    /\ th["pause1"].pc = "idle"
    /\ th["pause1"].arg
    /\ th["pause1"].result = "ok"

\* PauseHeartbeat(true) called by t has returned, and PauseHeartbeat(false)
\* has not been called since
ReturnedPaused(t) ==
    /\ th[t].pc = "idle"
    /\ th[t].op = "PauseHeartbeat"
    /\ th[t].arg
    /\ th[t].result = "ok"
    /\ heartbeatPaused[Home(t)] = 1

\* C38: also when PauseHeartbeat calls overlap, once a PauseHeartbeat(true)
\* call has returned the heartbeat loop has no heartbeat in flight and starts
\* none until PauseHeartbeat(false) is called.
C38_PausedAfterReturn ==
    \A t \in active \cap PauseThreads :
        (ReturnedPaused(t) /\ LoopOf(Home(t)) \in active)
            => th[LoopOf(Home(t))].pc = "token"

\* C39: SetDecommissioning changes the caller's cache only by offering the
\* record it read from the store; neither its committed put nor a condition
\* failure installs the written or the actual record, so when it returns
\* changed = true the cached record is the one the cache held before the
\* put, unless gossip has delivered another one.
C39_CacheOnlyOfferedOldRecord ==
    [][\A t \in active \cap DecThreads :
          (th'[t] # th[t]) =>
             /\ \/ cache' = cache
                \/ /\ th[t].pc = "read"
                   /\ cache' = [cache EXCEPT ![Home(t)] =
                                   maybeUpdate(@, store[th[t].target])]
             /\ th[t].pc \in {"sync", "cput", "resp"} => cache' = cache
             /\ (th[t].pc = "read" /\ th'[t].pc = "sync") =>
                   /\ th'[t].liveness = store[th[t].target]
                   /\ cache'[Home(t)][th[t].target].decommissioning
                          = th'[t].liveness.decommissioning
                      \/ cache'[Home(t)][th[t].target].epoch > th'[t].liveness.epoch
                      \/ cache'[Home(t)][th[t].target].expiration
                             > th'[t].liveness.expiration]_vars

\* SetDecommissioning has returned changed = true and the caller's cache
\* still holds the record with the previous decommissioning value
C39_Witness ==
    \E t \in active \cap DecThreads :
        /\ th[t].pc = "idle"
        /\ th[t].result = "ok"
        /\ th[t].changed
        /\ store[th[t].target].decommissioning = th[t].arg
        /\ cache[Home(t)][th[t].target] # Empty
        /\ cache[Home(t)][th[t].target].decommissioning # th[t].arg
        /\ cache[Home(t)][th[t].target].epoch = store[th[t].target].epoch

\* errChangeDecommissioningFailed: the conditional put failed and the actual
\* record's flag differs from the requested one
ChangeFailed(t) ==
    /\ th[t].pc = "resp"
    /\ th[t].outcome = "condfailed"
    /\ th[t].actual.decommissioning # th[t].arg

\* C40: when SetDecommissioning's conditional put fails and the actual
\* record's flag differs from the requested value, the call releases the
\* gate, takes it again, reads the record from the store again and repeats
\* the attempt with it; the caller never sees change_decommissioning_failed,
\* and with a bounded number of concurrent writes and fair scheduling every
\* call returns.
C40_RetriesWholeAttempt ==
    /\ [](\A t \in active \cap DecThreads :
             th[t].pc = "idle" => th[t].result # "change_decommissioning_failed")
    /\ [][\A t \in active \cap DecThreads :
            /\ (th[t].pc = "resp" /\ th'[t] # th[t]) =>
                  IF ChangeFailed(t)
                  THEN /\ th'[t].pc = "gate"
                       /\ th'[t].result = "change_decommissioning_failed"
                       /\ th'[t].target = th[t].target
                       /\ th'[t].arg = th[t].arg
                       /\ th'[t].calls = th[t].calls
                       /\ SemTaken(Home(t), th[t].target)
                       /\ ~(SemTaken(Home(t), th[t].target))'
                       /\ store' = store
                  ELSE th'[t].pc = "idle"
            /\ (th[t].pc = "gate" /\ th'[t] # th[t]) =>
                  /\ th'[t].pc = "read"
                  /\ ~SemTaken(Home(t), th[t].target)
                  /\ (SemTaken(Home(t), th[t].target))'
            /\ (th[t].pc = "read" /\ th'[t].pc = "sync") =>
                  /\ th'[t].liveness = store[th[t].target]
                  /\ th'[t].update = [store[th[t].target] EXCEPT
                                          !.decommissioning = th[t].arg]]_vars
    /\ \A t \in DecThreads :
          (t \in active /\ th[t].pc # "idle") ~> (th[t].pc = "idle")

\* a retried attempt is about to put: the earlier attempt ended in
\* errChangeDecommissioningFailed, and the record to replace is the one the
\* writer left in the store, not the one the earlier attempt had read
C40_Witness ==
    \E t \in active \cap DecThreads :
        /\ th[t].pc = "cput"
        /\ th[t].result = "change_decommissioning_failed"
        /\ th[t].liveness = store[th[t].target]
        /\ th[t].liveness # OldRecord(th[t].target)
        /\ th[t].liveness.decommissioning # th[t].arg

====
